---- MODULE Spec2Model ----
(***************************************************************************)
(* State-machine model of the bitget-hedger dashboard:                     *)
(*   - utils/bitgetApi.ts : signer, request client, balance / positions /  *)
(*     orders / cancel-order calls                                         *)
(*   - App.tsx            : account data fetcher (fetchAccountData),       *)
(*     cancel handler (handleCancelOrder), WebSocket price feed            *)
(* A response of the exchange is an input of the model; every handler and  *)
(* every continuation after an await is one action.                        *)
(***************************************************************************)
EXTENDS Integers, Sequences, FiniteSets, TLC

(***************************************************************************)
(* Bounds of the model                                                     *)
(***************************************************************************)
\* refresh cycles (fetchAccountData activations) that may be in flight at once
MaxCycles == 2
\* cancel handlers (handleCancelOrder activations) that may be in flight at once
MaxCancels == 1
\* longest order list the exchange returns
MaxOrders == 2
\* runs of the WebSocket effect (the mount and the symbol changes after it)
MaxSessions == 2
\* WebSocket objects created in all
MaxSockets == 3
\* keepalive pings sent on one connection
MaxPings == 1
\* longest position list of an account that is rendered
MaxPositions == 2

VARIABLES
    config,        \* App.tsx:110   "null" until loadConfig resolved, then "loaded"
    accountsData,  \* App.tsx:113   account-state table: accountId -> entry
    cycles,        \* one record per fetchAccountData activation (its locals and await point)
    cancels,       \* one record per handleCancelOrder activation
    lastCancel,    \* how the latest handleCancelOrder activation ended (observation)
    delivered,     \* the kind of the response delivered last (observation)
    selectedSymbol,\* App.tsx:104   display symbol selected in the dashboard
    wsConnected,   \* App.tsx:107   the "connected" flag shown as LIVE / OFFLINE
    sessions,      \* one record per run of the WebSocket effect (App.tsx:128-337):
                   \* its closure variables ws, reconnectTimer, pingTimer
    sockets,       \* every WebSocket created so far: owner session, readyState,
                   \* messages sent on it
    signCall,      \* the last calls of generateSignature, the latest first and
                   \* at most two: each a record of its arguments and its result
    requests,      \* the last requests built by makeApiRequest, the latest first
                   \* and at most two: the arguments, the clock, what fetch was given
    reply,         \* the last response handled by an API call: <<>> before the
                   \* first, then one record of the call, the response, the outcome
    view,          \* the last rendering of an account's positions: <<>> before
                   \* the first, then one record of what was shown and from what
    quiet,         \* the exchange once account activity has stopped: the answers
                   \* it gave in the refresh cycle before and the table left by it
    batch,         \* the handleCancelAllOrders activation (App.tsx:515-535): its
                   \* closure snapshot, the requests issued, how each one ended
    summary,       \* the first rendering of the portfolio summary (App.tsx:745-746):
                   \* the table it was computed from and how getSummaryData ended
    polling,       \* the REST polling iteration of App (App.tsx:1363-1461): its
                   \* connected flag, prices, and the fetchPrices round under way
    priceData,     \* App.tsx:106   price ticks: display symbol -> tick
    currentPrice,  \* App.tsx:105   the price shown for the selected symbol
    initial,       \* fetchInitialPrices (App.tsx:149-194) of every socket: 0 before
                   \* onopen, then the index of the symbol whose ticker request is
                   \* in flight, Len(symbols) + 1 when the loop is over
    received       \* the stream message or ticker response handled last, with the
                   \* clock at that time (observation)

accountVars == <<config, accountsData, cycles, cancels, lastCancel, delivered>>
feedVars == <<selectedSymbol, wsConnected, sessions, sockets>>
pureVars == <<signCall, requests, reply, view>>
deskVars == <<batch, summary, polling>>
priceVars == <<priceData, currentPrice, initial, received>>
vars == <<config, accountsData, cycles, cancels, lastCancel, delivered,
          selectedSymbol, wsConnected, sessions, sockets, signCall, requests, reply, view, quiet,
          batch, summary, polling, priceData, currentPrice, initial, received>>

(***************************************************************************)
(* Configuration (config.json): three accounts, the second one disabled.   *)
(***************************************************************************)
ConfigAccounts ==
    << [id |-> "1", enabled |-> TRUE],
       [id |-> "2", enabled |-> FALSE],
       [id |-> "3", enabled |-> TRUE] >>

AccountIds == {ConfigAccounts[i].id : i \in 1..Len(ConfigAccounts)}

\* config.accounts.filter((acc) => acc.enabled)
Enabled(acc) == acc.enabled
enabledAccounts == SelectSeq(ConfigAccounts, Enabled)

(***************************************************************************)
(* Exchange responses and the request client (utils/bitgetApi.ts)          *)
(***************************************************************************)
SuccessCode == "00000"

\* what fetch() can produce for one request: a rejected promise (network
\* error) or an HTTP response with a status, a raw body and, for a JSON body,
\* an envelope {code, msg, data}
NetworkFailure ==
    [threw |-> TRUE, status |-> 0, body |-> "", code |-> "", msg |-> "", data |-> <<>>]
HttpFailure ==
    [threw |-> FALSE, status |-> 500, body |-> "oops", code |-> "", msg |-> "", data |-> <<>>]
ApiFailure ==
    [threw |-> FALSE, status |-> 200, body |-> "", code |-> "40001", msg |-> "denied", data |-> <<>>]
Success(d) ==
    [threw |-> FALSE, status |-> 200, body |-> "", code |-> SuccessCode, msg |-> "success", data |-> d]

Failures == {NetworkFailure, HttpFailure, ApiFailure}
Responses(Data) == Failures \cup {Success(d) : d \in Data}

\* which of the four kinds a response is
ResponseKind(resp) ==
    IF resp.threw THEN "network"
    ELSE IF resp.status < 200 \/ resp.status > 299 THEN "http"
    ELSE IF resp.code # SuccessCode THEN "api"
    ELSE "success"

\* mutant of ResponseOk: a redirect counts as a success
ResponseOk_Below400(resp) == resp.status >= 200 /\ resp.status <= 399

\* response.ok
ResponseOk(resp) == resp.status >= 200 /\ resp.status <= 299

\* outcome of an async call: it throws an Error with a message, or returns a value
Throw(m) == [threw |-> TRUE, message |-> m, value |-> <<>>]
Return(v) == [threw |-> FALSE, message |-> <<>>, value |-> v]

\* makeApiRequest: throws on a rejected fetch and on a non-2xx status,
\* otherwise returns the parsed envelope
makeApiRequest(resp) ==
    IF resp.threw
    THEN Throw(<<"Failed to fetch">>)
    ELSE IF ~ResponseOk(resp)
         THEN Throw(<<"HTTP error! status: ", resp.status, ", body: ", resp.body>>)
         ELSE Return([code |-> resp.code, msg |-> resp.msg, data |-> resp.data])

\* mutant of getAccountBalance: a failure gives the empty list
getAccountBalance_Swallows(resp) ==
    LET response == makeApiRequest(resp)
    IN  IF response.threw \/ response.value.code # SuccessCode
        THEN Return(<<>>)
        ELSE Return(response.value.data)

\* getAccountBalance / getPositions: throw on a non-success envelope code
getAccountBalance(resp) ==
    LET response == makeApiRequest(resp)
    IN  IF response.threw
        THEN response
        ELSE IF response.value.code # SuccessCode
             THEN Throw(<<"API Error: ", response.value.msg>>)
             ELSE Return(response.value.data)

\* mutant of getPositions: the envelope code is not checked
getPositions_IgnoresCode(resp) ==
    LET response == makeApiRequest(resp)
    IN  IF response.threw
        THEN response
        ELSE Return(response.value.data)

getPositions(resp) ==
    LET response == makeApiRequest(resp)
    IN  IF response.threw
        THEN response
        ELSE IF response.value.code # SuccessCode
             THEN Throw(<<"API Error: ", response.value.msg>>)
             ELSE Return(response.value.data)

\* mutant of getOrders: no try/catch around the request
getOrders_Uncaught(resp) ==
    LET response == makeApiRequest(resp)
    IN  IF response.threw
        THEN response
        ELSE IF response.value.code # SuccessCode
             THEN Return(<<>>)
             ELSE Return(response.value.data)

\* getOrders: every failure is caught and turned into the empty list
getOrders(resp) ==
    LET response == makeApiRequest(resp)
    IN  IF response.threw
        THEN Return(<<>>)
        ELSE IF response.value.code # SuccessCode
             THEN Return(<<>>)
             ELSE Return(response.value.data)

\* mutant of cancelOrder: the envelope code is not checked
cancelOrder_IgnoresCode(resp) ==
    LET response == makeApiRequest(resp)
    IN  IF response.threw
        THEN response
        ELSE Return(TRUE)

\* cancelOrder: throws on a non-success envelope code, else true
cancelOrder(resp) ==
    LET response == makeApiRequest(resp)
    IN  IF response.threw
        THEN response
        ELSE IF response.value.code # SuccessCode
             THEN Throw(<<"API Error: ", response.value.msg>>)
             ELSE Return(TRUE)

(***************************************************************************)
(* Data the exchange may return                                            *)
(***************************************************************************)
Null == "null"
NoError == <<>>          \* the entry has no error property (undefined)

\* data lists of the balance call and of the positions call
BalanceData == {<<>>, <<"b1", "b2">>}
PositionData == {<<>>, <<"p1">>}

Orders ==
    { [orderId |-> "o1", clientOid |-> "x"],
      [orderId |-> "o1", clientOid |-> "y"],
      [orderId |-> "o2", clientOid |-> "x"] }
OrderIds == {o.orderId : o \in Orders}

Injective(s) == \A i, j \in 1..Len(s) : s[i] = s[j] => i = j
\* data lists of the orders call: no order twice, at most MaxOrders orders
OrderData ==
    {s \in UNION {[1..n -> Orders] : n \in 0..MaxOrders} : Injective(s)}

(***************************************************************************)
(* Stamped data: what the exchange returns, marked with its origin         *)
(***************************************************************************)
Marks == {"t1", "t2"}

Stamp(id, t) ==
    CASE id = "1" /\ t = "t1" -> "1.t1"
      [] id = "1" /\ t = "t2" -> "1.t2"
      [] id = "3" /\ t = "t1" -> "3.t1"
      [] id = "3" /\ t = "t2" -> "3.t2"

\* the order list that goes with a stamp
StampedOrders(stamp) ==
    << [orderId |-> "o1", clientOid |-> stamp], [orderId |-> "o2", clientOid |-> stamp] >>

(***************************************************************************)
(* Account-state table (App.tsx:113-122) and its three writers             *)
(***************************************************************************)
UndefinedAccount == [id |-> "undefined", enabled |-> FALSE]

\* {...prev[id]} : the properties of the entry, or none when there is no entry
EntryOf(prev, id) ==
    IF id \in DOMAIN prev
    THEN prev[id]
    ELSE [account |-> UndefinedAccount, balance |-> Null, positions |-> <<>>,
          orders |-> <<>>, loading |-> FALSE, error |-> NoError]

\* {...prev, [id]: entry}
Put(prev, id, entry) ==
    [k \in DOMAIN prev \cup {id} |-> IF k = id THEN entry ELSE prev[k]]

\* App.tsx:364-384  loading reset of every enabled account; the spread keeps
\* whatever the entry held that is not overwritten, i.e. its error property
RECURSIVE ResetFrom(_, _)
ResetFrom(newData, i) ==
    IF i > Len(enabledAccounts)
    THEN newData
    ELSE LET account == enabledAccounts[i]
         IN  ResetFrom(
                 Put(newData, account.id,
                     [EntryOf(newData, account.id) EXCEPT
                         !.account = account,
                         !.loading = TRUE,
                         !.balance = Null,
                         !.positions = <<>>,
                         !.orders = <<>>]),
                 i + 1)

\* mutant of LoadingReset: the positions are not reset
LoadingReset_KeepsPositions(prev) ==
    LET reset == ResetFrom(prev, 1)
    IN  [k \in DOMAIN reset |-> [reset[k] EXCEPT !.positions = EntryOf(prev, k).positions]]

LoadingReset(prev) == ResetFrom(prev, 1)

\* mutant of SuccessWrite: a result already in the entry is not overwritten
SuccessWrite_FirstWins(prev, id, balance, positionsData, ordersData) ==
    IF EntryOf(prev, id).balance # Null
    THEN Put(prev, id, [EntryOf(prev, id) EXCEPT !.loading = FALSE])
    ELSE Put(prev, id,
             [EntryOf(prev, id) EXCEPT
                 !.balance = balance,
                 !.positions = positionsData,
                 !.orders = ordersData,
                 !.loading = FALSE])

\* mutant of SuccessWrite: every success write leaves a mark in the entry
SuccessWrite_Accumulates(prev, id, balance, positionsData, ordersData) ==
    Put(prev, id,
        [EntryOf(prev, id) EXCEPT
            !.balance = balance,
            !.positions = positionsData,
            !.orders = ordersData,
            !.loading = FALSE,
            !.error = Append(@, "written")])

\* App.tsx:409-418  success write
SuccessWrite(prev, id, balance, positionsData, ordersData) ==
    Put(prev, id,
        [EntryOf(prev, id) EXCEPT
            !.balance = balance,
            !.positions = positionsData,
            !.orders = ordersData,
            !.loading = FALSE])

\* mutant of ErrorWrite: the spread of prev is forgotten
ErrorWrite_DropsOthers(prev, id, errorMsg) ==
    Put(<<>>, id,
        [EntryOf(prev, id) EXCEPT
            !.loading = FALSE,
            !.error = errorMsg])

\* App.tsx:426-433  error write
ErrorWrite(prev, id, errorMsg) ==
    Put(prev, id,
        [EntryOf(prev, id) EXCEPT
            !.loading = FALSE,
            !.error = errorMsg])

(***************************************************************************)
(* fetchAccountData (App.tsx:357-441): one activation per slot of cycles   *)
(***************************************************************************)
CycleIds == 1..MaxCycles
IdleCycle == [pc |-> "idle", idx |-> 0, balance |-> Null, positionsData |-> <<>>]

\* the activation moves on to the next enabled account, or returns
NextAccount(cy) ==
    IF cy.idx < Len(enabledAccounts)
    THEN [pc |-> "balance", idx |-> cy.idx + 1, balance |-> Null, positionsData |-> <<>>]
    ELSE IdleCycle

\* balanceArray.length > 0 ? balanceArray[0] : null
FirstBalance(balanceArray) ==
    IF Len(balanceArray) > 0 THEN balanceArray[1] ELSE Null

\* mutant of FreeSlot: fetchAccountData does not start while a cycle is under way
FreeSlot_Single(c) ==
    /\ c = 1
    /\ cycles[c].pc = "idle"

\* a new activation takes the lowest free slot
FreeSlot(c) ==
    /\ cycles[c].pc = "idle"
    /\ \A d \in CycleIds : d < c => cycles[d].pc # "idle"

\* App.tsx:357-399  guards, loading reset, first balance request issued
fetchAccountData(cfg, c) ==
    /\ cfg # "null"
    /\ Len(ConfigAccounts) # 0
    /\ Len(enabledAccounts) # 0
    /\ FreeSlot(c)
    /\ accountsData' = LoadingReset(accountsData)
    /\ cycles' = [cycles EXCEPT ![c] =
                     [pc |-> "balance", idx |-> 1, balance |-> Null, positionsData |-> <<>>]]

\* The exchange with and without account activity. While there is activity
\* it answers anything; once activity has stopped it answers every call of a
\* refresh cycle as it answered the same call of the cycle before. log holds
\* the answers of the cycle under way, prev those of the cycle before, table
\* the account table that cycle left, cyclesDone counts the cycles completed
\* since activity stopped (up to two).
Active == [on |-> FALSE, log |-> <<>>, prev |-> <<>>, table |-> <<>>, cyclesDone |-> 0]

\* the exchange has answered a call of a cycle; done: the cycle has returned
Answered(q, resp, done, table) ==
    IF ~q.on THEN q
    ELSE IF done
         THEN [on |-> TRUE, log |-> <<>>, prev |-> Append(q.log, resp), table |-> table,
               cyclesDone |-> IF q.cyclesDone < 2 THEN q.cyclesDone + 1 ELSE q.cyclesDone]
         ELSE [q EXCEPT !.log = Append(@, resp)]

\* the answer the exchange may give to the next call of the cycle under way
Replays(q, resp) ==
    \/ q.cyclesDone = 0
    \/ /\ Len(q.log) < Len(q.prev)
       /\ resp = q.prev[Len(q.log) + 1]

\* account activity stops, between two refresh cycles
Quiesce ==
    /\ config # "null"
    /\ \A c \in CycleIds : cycles[c].pc = "idle"
    /\ ~quiet.on
    /\ quiet' = [quiet EXCEPT !.on = TRUE]
    /\ UNCHANGED <<accountVars, feedVars, pureVars, deskVars, priceVars>>

\* App.tsx:444-464  the configuration arrives; the [config] effect fetches
LoadConfig ==
    /\ config = "null"
    /\ config' = "loaded"
    /\ fetchAccountData("loaded", 1)
    /\ UNCHANGED <<cancels, lastCancel, delivered, feedVars, pureVars, quiet, deskVars, priceVars>>

\* App.tsx:477-480 (interval), 717-722 (refresh button), 348-354 (symbol
\* change), 534 (after cancel-all): another activation of fetchAccountData
Refresh(c) ==
    /\ fetchAccountData(config, c)
    /\ UNCHANGED <<config, cancels, lastCancel, delivered, feedVars, pureVars, quiet, deskVars, priceVars>>

\* App.tsx:399-400 and 421-433  the balance call settles
BalanceResponse(c, resp) ==
    LET cy == cycles[c]
        account == enabledAccounts[cy.idx]
        balanceArray == getAccountBalance(resp)
    IN  /\ cy.pc = "balance"
        /\ IF balanceArray.threw
           THEN /\ accountsData' = ErrorWrite(accountsData, account.id, balanceArray.message)
                /\ cycles' = [cycles EXCEPT ![c] = NextAccount(cy)]
           ELSE /\ accountsData' = accountsData
                /\ cycles' = [cycles EXCEPT ![c] =
                                 [cy EXCEPT !.pc = "positions",
                                            !.balance = FirstBalance(balanceArray.value)]]
        /\ delivered' = ResponseKind(resp)
        /\ quiet' = Answered(quiet, resp, cycles'[c].pc = "idle", accountsData')
        /\ UNCHANGED <<config, cancels, lastCancel, feedVars, pureVars, deskVars, priceVars>>

\* App.tsx:403 and 421-433  the positions call settles
PositionsResponse(c, resp) ==
    LET cy == cycles[c]
        account == enabledAccounts[cy.idx]
        positionsData == getPositions(resp)
    IN  /\ cy.pc = "positions"
        /\ IF positionsData.threw
           THEN /\ accountsData' = ErrorWrite(accountsData, account.id, positionsData.message)
                /\ cycles' = [cycles EXCEPT ![c] = NextAccount(cy)]
           ELSE /\ accountsData' = accountsData
                /\ cycles' = [cycles EXCEPT ![c] =
                                 [cy EXCEPT !.pc = "orders",
                                            !.positionsData = positionsData.value]]
        /\ delivered' = ResponseKind(resp)
        /\ quiet' = Answered(quiet, resp, cycles'[c].pc = "idle", accountsData')
        /\ UNCHANGED <<config, cancels, lastCancel, feedVars, pureVars, deskVars, priceVars>>

\* App.tsx:406-433  the orders call settles; success write, or the error
\* write of the catch if the call threw
OrdersResponse(c, resp) ==
    LET cy == cycles[c]
        account == enabledAccounts[cy.idx]
        ordersData == getOrders(resp)
    IN  /\ cy.pc = "orders"
        /\ IF ordersData.threw
           THEN accountsData' = ErrorWrite(accountsData, account.id, ordersData.message)
           ELSE accountsData' = SuccessWrite(accountsData, account.id, cy.balance,
                                             cy.positionsData, ordersData.value)
        /\ cycles' = [cycles EXCEPT ![c] = NextAccount(cy)]
        /\ delivered' = ResponseKind(resp)
        /\ quiet' = Answered(quiet, resp, cycles'[c].pc = "idle", accountsData')
        /\ UNCHANGED <<config, cancels, lastCancel, feedVars, pureVars, deskVars, priceVars>>

(***************************************************************************)
(* handleCancelOrder (App.tsx:491-512): one activation per slot of cancels *)
(***************************************************************************)
CancelIds == 1..MaxCancels
NoOrder == [orderId |-> "none", clientOid |-> "none"]

\* pc: "idle" (free slot) or "await" (cancel request in flight), with the
\* arguments of the activation
IdleCancel == [pc |-> "idle", order |-> NoOrder, accountId |-> "none"]

\* result: "returned" (early return), "ok" (order removed from local state),
\* "failed" (logged in the catch), "threw" (an exception escaped the handler);
\* removed: how many orders the filter dropped
Ended(result, removed) == [result |-> result, removed |-> removed]

FreeCancel(k) ==
    /\ cancels[k].pc = "idle"
    /\ \A j \in CancelIds : j < k => cancels[j].pc # "idle"

\* mutant of KeepOrder: orders are compared as a whole, not by id
KeepOrder_ByIdentity(o, order) == o # order

\* (o) => o.orderId !== order.orderId
KeepOrder(o, order) == o.orderId # order.orderId

\* prev[accountId].orders.filter(...)
FilterOrders(orders, order) == SelectSeq(orders, LAMBDA o : KeepOrder(o, order))

\* App.tsx:498-506  the functional update of a successful cancel
CancelWrite(prev, accountId, order) ==
    Put(prev, accountId,
        [EntryOf(prev, accountId) EXCEPT
            !.orders = FilterOrders(EntryOf(prev, accountId).orders, order)])

\* mutant of handleCancelOrder: no early return without an entry
handleCancelOrder_NoGuard(k, order, accountId) ==
    /\ FreeCancel(k)
    /\ cancels' = [cancels EXCEPT ![k] =
                      [pc |-> "await", order |-> order, accountId |-> accountId]]
    /\ lastCancel' = lastCancel
    /\ UNCHANGED <<config, accountsData, cycles, delivered, feedVars, pureVars, quiet, deskVars, priceVars>>

\* App.tsx:491-496  the handler is invoked: early return without an entry,
\* otherwise the cancel request is issued
handleCancelOrder(k, order, accountId) ==
    /\ FreeCancel(k)
    /\ IF accountId \notin DOMAIN accountsData
       THEN /\ cancels' = cancels
            /\ lastCancel' = Ended("returned", 0)
       ELSE /\ cancels' = [cancels EXCEPT ![k] =
                              [pc |-> "await", order |-> order, accountId |-> accountId]]
            /\ lastCancel' = lastCancel
    /\ UNCHANGED <<config, accountsData, cycles, delivered, feedVars, pureVars, quiet, deskVars, priceVars>>

\* App.tsx:496-511  the cancel request settles: optimistic removal on
\* success, log only in the catch; prev[accountId].orders of a missing entry
\* would throw inside the update, outside the try
CancelResponse(k, resp) ==
    LET ca == cancels[k]
        done == cancelOrder(resp)
    IN  /\ ca.pc = "await"
        /\ cancels' = [cancels EXCEPT ![k] = IdleCancel]
        /\ IF done.threw
           THEN /\ accountsData' = accountsData
                /\ lastCancel' = Ended("failed", 0)
           ELSE IF ca.accountId \notin DOMAIN accountsData
                THEN /\ accountsData' = accountsData
                     /\ lastCancel' = Ended("threw", 0)
                ELSE /\ accountsData' = CancelWrite(accountsData, ca.accountId, ca.order)
                     /\ lastCancel' =
                            Ended("ok", Len(accountsData[ca.accountId].orders)
                                        - Len(accountsData'[ca.accountId].orders))
        /\ delivered' = ResponseKind(resp)
        /\ UNCHANGED <<config, cycles, feedVars, pureVars, quiet, deskVars, priceVars>>

(***************************************************************************)
(* handleCancelAllOrders (App.tsx:515-535)                                 *)
(***************************************************************************)
\* Object.values(accountsData): integer-like keys come in ascending order
KeyOrder == <<"1", "2", "3">>

ObjectValues(table) ==
    LET keys == SelectSeq(KeyOrder, LAMBDA id : id \in DOMAIN table)
    IN  [i \in 1..Len(keys) |-> table[keys[i]]]

\* App.tsx:516-521  the two nested loops, flattened: one attempt per order of
\* every enabled entry, in iteration order
RECURSIVE Attempts(_)
Attempts(entries) ==
    IF entries = <<>> THEN <<>>
    ELSE (IF Head(entries).account.enabled
          THEN [i \in 1..Len(Head(entries).orders) |->
                   [accountId |-> Head(entries).account.id,
                    orderId |-> Head(entries).orders[i].orderId]]
          ELSE <<>>)
             \o Attempts(Tail(entries))

\* App.tsx:562 and 860  summary.totalOrders of the rendering
totalOrders(table) == Len(Attempts(ObjectValues(table)))

\* pc: "idle" or "await" (a cancel request in flight); snapshot: the attempts
\* the closure's accountsData gives; issued: the requests issued so far;
\* outcomes: how each settled request ended; refreshed: fetchAccountData was
\* called at the end
IdleBatch ==
    [pc |-> "idle", snapshot |-> <<>>, issued |-> <<>>, outcomes |-> <<>>, refreshed |-> FALSE]

\* mutant of Remaining: the first failure ends the loops
Remaining_StopsOnFailure(b, done) ==
    IF done.threw THEN <<>>
    ELSE SubSeq(b.snapshot, Len(b.issued) + 1, Len(b.snapshot))

\* App.tsx:521-531  the attempts still to make after one has settled: the
\* catch is inside the inner loop, so a failure only logs
Remaining(b, done) == SubSeq(b.snapshot, Len(b.issued) + 1, Len(b.snapshot))

\* App.tsx:515-523  the button is pressed (it is disabled while the summary
\* counts no order, App.tsx:860): the first cancel request is issued
handleCancelAllOrders ==
    LET todo == Attempts(ObjectValues(accountsData))
    IN  /\ batch.pc = "idle"
        /\ totalOrders(accountsData) # 0
        /\ batch' = [pc |-> "await", snapshot |-> todo, issued |-> <<Head(todo)>>,
                     outcomes |-> <<>>, refreshed |-> FALSE]
        /\ UNCHANGED <<accountVars, feedVars, pureVars, quiet, summary, polling, priceVars>>

\* App.tsx:523-534  the cancel request in flight settles: logged either way;
\* the next request is issued, or, after the last one, fetchAccountData is
\* called (it takes the lowest free slot of cycles)
CancelAllResponse(resp) ==
    LET done == cancelOrder(resp)
        outcomes == Append(batch.outcomes, IF done.threw THEN "failed" ELSE "cancelled")
        rest == Remaining(batch, done)
    IN  /\ batch.pc = "await"
        /\ IF rest # <<>>
           THEN /\ batch' = [batch EXCEPT !.issued = Append(@, Head(rest)),
                                          !.outcomes = outcomes]
                /\ UNCHANGED <<accountsData, cycles>>
           ELSE /\ batch' = [batch EXCEPT !.pc = "idle", !.outcomes = outcomes,
                                          !.refreshed = TRUE]
                /\ \E c \in CycleIds : fetchAccountData(config, c)
        /\ delivered' = ResponseKind(resp)
        /\ UNCHANGED <<config, cancels, lastCancel, feedVars, pureVars, quiet, summary, polling, priceVars>>

(***************************************************************************)
(* Price feed: the WebSocket effect of App.tsx:128-337                     *)
(***************************************************************************)
\* App.tsx:129-133
symbols ==
    << [api |-> "BTCUSDT_UMCBL", display |-> "BTCUSD.P"],
       [api |-> "ETHUSDT_UMCBL", display |-> "ETHUSD.P"],
       [api |-> "BNBUSDT_UMCBL", display |-> "BNBUSDT.P"] >>

DisplaySymbols == {symbols[i].display : i \in 1..Len(symbols)}

\* App.tsx:200-209  one subscribe message
Subscribe(symbol) ==
    [op |-> "subscribe",
     args |-> <<[instType |-> "UMCBL", channel |-> "ticker", instId |-> symbol.api]>>]

\* App.tsx:221  the keepalive frame 'ping', written as a message without arguments
Ping == [op |-> "ping", args |-> <<>>]

\* mutant of subscriptions: only the first symbol is subscribed
subscriptions_FirstOnly == <<Subscribe(symbols[1])>>

\* App.tsx:200-209  symbols.map(...)
subscriptions == [i \in 1..Len(symbols) |-> Subscribe(symbols[i])]

\* App.tsx:135-137  the closure variables of a fresh effect run, with the
\* selectedSymbol of the rendering it belongs to; ws is the index
\* of a socket, 0 for null; a timer variable is "null", the id of a scheduled
\* timer ("pending" / "on") or the id of one that fired or was cleared ("stale")
NewSession(sym) ==
    [live |-> TRUE, ws |-> 0, reconnectTimer |-> "null", pingTimer |-> "null",
     selectedSymbol |-> sym]

\* the effect run whose cleanup has not run yet (0 before the mount)
Current == Len(sessions)

\* WebSocket.send: the message goes out on an OPEN socket and is dropped on a
\* closing or closed one
Send(socks, i, msg) ==
    IF i # 0 /\ socks[i].readyState = "OPEN"
    THEN [socks EXCEPT ![i].sent = Append(@, msg)]
    ELSE socks

RECURSIVE SendAll(_, _, _)
SendAll(socks, i, msgs) ==
    IF msgs = <<>> THEN socks
    ELSE SendAll(Send(socks, i, Head(msgs)), i, Tail(msgs))

\* App.tsx:139-143 and 316-319  connectWebSocket of effect run s, after the
\* statements of the same task left sess, socks and flag: either the WebSocket
\* is created (CONNECTING) and assigned to ws, or new WebSocket throws and the
\* catch clears the flag
connectWebSocket(s, sess, socks, flag) ==
    \/ /\ Len(socks) < MaxSockets
       /\ sockets' = Append(socks, [session |-> s, readyState |-> "CONNECTING", sent |-> <<>>])
       /\ sessions' = [sess EXCEPT ![s].ws = Len(socks) + 1]
       /\ wsConnected' = flag
    \/ /\ sockets' = socks
       /\ sessions' = sess
       /\ wsConnected' = FALSE

\* App.tsx:128-323  the effect runs at mount: initial connection
StartFeed ==
    /\ sessions = <<>>
    /\ connectWebSocket(1, <<NewSession(selectedSymbol)>>, sockets, wsConnected)
    /\ UNCHANGED <<selectedSymbol, accountVars, pureVars, quiet, deskVars, priceVars>>

\* App.tsx:326-336  cleanup of an effect run: clear the timers, close ws
Cleanup(se) ==
    [se EXCEPT !.live = FALSE,
               !.reconnectTimer = IF @ = "pending" THEN "stale" ELSE @,
               !.pingTimer = IF @ = "on" THEN "stale" ELSE @]

\* WebSocket.close(): a connecting or open socket starts closing
Close(socks, i) ==
    IF i # 0 /\ socks[i].readyState \in {"CONNECTING", "OPEN"}
    THEN [socks EXCEPT ![i].readyState = "CLOSING"]
    ELSE socks

\* App.tsx:340-345  the current price effect: it runs after every rendering
\* in which selectedSymbol or priceData changed
CurrentPriceEffect(sym, ticks, price) ==
    IF sym \in DOMAIN ticks THEN ticks[sym].price ELSE price

\* App.tsx:613 with 326-337, 128-323 and 340-345  another symbol is selected:
\* the cleanup of the current effect run, then a new effect run connects; the
\* current price effect runs
SelectSymbol(sym) ==
    /\ Current >= 1
    /\ Current < MaxSessions
    /\ sym # selectedSymbol
    /\ selectedSymbol' = sym
    /\ connectWebSocket(Current + 1,
                        Append([sessions EXCEPT ![Current] = Cleanup(@)], NewSession(sym)),
                        Close(sockets, sessions[Current].ws),
                        wsConnected)
    /\ currentPrice' = CurrentPriceEffect(sym, priceData, currentPrice)
    /\ UNCHANGED <<accountVars, pureVars, quiet, deskVars, priceData, initial, received>>

\* App.tsx:144-224  ws.onopen of socket i: flag set, fetchInitialPrices called
\* (its first ticker request issued), the subscriptions sent with ws?.send
\* (ws of the owning effect run), keepalive interval started
WsOpen(i) ==
    LET s == sockets[i].session
        opened == [sockets EXCEPT ![i].readyState = "OPEN"]
    IN  /\ sockets[i].readyState = "CONNECTING"
        /\ wsConnected' = TRUE
        /\ sockets' = SendAll(opened, sessions[s].ws, subscriptions)
        /\ sessions' = [sessions EXCEPT ![s].pingTimer = "on"]
        /\ initial' = [initial EXCEPT ![i] = 1]
        /\ UNCHANGED <<selectedSymbol, accountVars, pureVars, quiet, deskVars,
                       priceData, currentPrice, received>>

\* App.tsx:296-315  the connection of socket i is closed: readyState becomes
\* CLOSED, then, in the same task, ws.onerror runs if the connection failed
\* (it clears the flag) and ws.onclose runs: flag cleared, keepalive interval
\* cleared, reconnect scheduled
WsClose(i) ==
    LET s == sockets[i].session
    IN  /\ sockets[i].readyState \in {"CONNECTING", "OPEN", "CLOSING"}
        /\ sockets' = [sockets EXCEPT ![i].readyState = "CLOSED"]
        /\ wsConnected' = FALSE
        /\ sessions' = [sessions EXCEPT
                           ![s].pingTimer = IF @ # "null" THEN "null" ELSE @,
                           ![s].reconnectTimer = "pending"]
        /\ UNCHANGED <<selectedSymbol, accountVars, pureVars, quiet, deskVars, priceVars>>

\* App.tsx:306-309  the reconnect timeout of effect run s fires
ReconnectFire(s) ==
    /\ sessions[s].reconnectTimer = "pending"
    /\ Len(sockets) < MaxSockets
    /\ connectWebSocket(s, [sessions EXCEPT ![s].reconnectTimer = "stale"],
                        sockets, wsConnected)
    /\ UNCHANGED <<selectedSymbol, accountVars, pureVars, quiet, deskVars, priceVars>>

Pings(i) == Cardinality({j \in 1..Len(sockets[i].sent) : sockets[i].sent[j] = Ping})

\* App.tsx:219-223  the keepalive interval of effect run s fires
PingFire(s) ==
    /\ sessions[s].pingTimer = "on"
    /\ sessions[s].ws # 0
    /\ sockets[sessions[s].ws].readyState = "OPEN"
    /\ Pings(sessions[s].ws) < MaxPings
    /\ sockets' = Send(sockets, sessions[s].ws, Ping)
    /\ UNCHANGED <<selectedSymbol, wsConnected, sessions, accountVars, pureVars, quiet, deskVars, priceVars>>

(***************************************************************************)
(* Request signer: generateSignature of bitgetApi.ts:73-112                *)
(* A string is the sequence of its characters.                             *)
(***************************************************************************)
\* a string argument that may be missing at run time
Undefined == [defined |-> FALSE, str |-> <<>>]
Str(chars) == [defined |-> TRUE, str |-> chars]

\* mutant of toUpperCase: the characters are kept as they are
toUpperCase_Kept(chars) == chars

\* String.prototype.toUpperCase on the characters used here
UpperChar(ch) ==
    CASE ch = "g" -> "G"
      [] ch = "e" -> "E"
      [] ch = "t" -> "T"
      [] ch = "p" -> "P"
      [] ch = "o" -> "O"
      [] ch = "s" -> "S"
      [] OTHER -> ch

\* bitgetApi.ts:83  method.toUpperCase()
toUpperCase(chars) == [i \in 1..Len(chars) |-> UpperChar(chars[i])]

\* bitgetApi.ts:85-86  x || '' : a missing or empty string gives ''
OrEmpty(x) == IF x.defined /\ x.str # <<>> THEN x.str ELSE <<>>

\* bitgetApi.ts:107  CryptoJS.HmacSHA256(message, key): the digest, kept as
\* the pair it is a function of
HmacSHA256(message, key) == [alg |-> "HmacSHA256", message |-> message, key |-> key]

\* bitgetApi.ts:106  CryptoJS.enc.Base64.stringify(words)
Base64Stringify(words) == [encoding |-> "base64", words |-> words]

\* mutant of generateSignature: the timestamp is left out of the message
generateSignature_NoTimestamp(method, requestPath, queryString, body, timestamp, secretKey) ==
    Base64Stringify(HmacSHA256(toUpperCase(method) \o requestPath \o OrEmpty(queryString)
                                   \o OrEmpty(body), secretKey))

\* bitgetApi.ts:73-112
generateSignature(method, requestPath, queryString, body, timestamp, secretKey) ==
    LET normalizedMethod == toUpperCase(method)
        normalizedPath == requestPath
        normalizedQuery == OrEmpty(queryString)
        normalizedBody == OrEmpty(body)
        message == timestamp \o normalizedMethod \o normalizedPath
                       \o normalizedQuery \o normalizedBody
    IN  Base64Stringify(HmacSHA256(message, secretKey))

Methods == { <<"G", "E", "T">>, <<"g", "e", "t">>, <<"P", "o", "s", "t">>, <<"p", "o", "s", "t">> }
Paths == { <<"/", "a">>, <<"/", "o", "/", "c">> }
Queries == { Undefined, Str(<<>>), Str(<<"?", "s", "=", "1">>) }
Bodies == { Undefined, Str(<<>>), Str(<<"{", "s", "}">>) }
Timestamps == { <<"1">>, <<"1", "7">> }
Secrets == { <<"k">>, <<"K", "2">> }

\* one call of the signer, recorded in front of the call before it; two calls
\* are enough to compare the signer with itself
Sign(method, requestPath, queryString, body, timestamp, secretKey) ==
    /\ Len(signCall) < 2
    /\ signCall' = << [method |-> method, requestPath |-> requestPath,
                       queryString |-> queryString, body |-> body,
                       timestamp |-> timestamp, secretKey |-> secretKey,
                       signature |-> generateSignature(method, requestPath, queryString,
                                                       body, timestamp, secretKey)] >>
                   \o signCall
    /\ UNCHANGED <<accountVars, feedVars, quiet, requests, reply, view, deskVars, priceVars>>

(***************************************************************************)
(* Request client, building a request: createHeaders and the first half of *)
(* makeApiRequest (bitgetApi.ts:115-203)                                   *)
(***************************************************************************)
\* BitgetAccount: the credentials of two accounts
ApiAccounts ==
    { [id |-> "1", apiKey |-> "key1", apiSecret |-> <<"s", "1">>, passphrase |-> "pass1"],
      [id |-> "3", apiKey |-> "key3", apiSecret |-> <<"s", "3">>, passphrase |-> "pass3"] }

\* an optional Record argument: missing, or its entries in insertion order
NoRecord == [defined |-> FALSE, entries |-> <<>>]
Rec(entries) == [defined |-> TRUE, entries |-> entries]

\* Number.prototype.toString for a natural number: its decimal digits
DigitChar(d) ==
    CASE d = 0 -> "0" [] d = 1 -> "1" [] d = 2 -> "2" [] d = 3 -> "3" [] d = 4 -> "4"
      [] d = 5 -> "5" [] d = 6 -> "6" [] d = 7 -> "7" [] d = 8 -> "8" [] d = 9 -> "9"

RECURSIVE NumberToString(_)
NumberToString(n) ==
    IF n < 10 THEN <<DigitChar(n)>>
    ELSE Append(NumberToString(n \div 10), DigitChar(n % 10))

\* bitgetApi.ts:175-177  new URLSearchParams(entries).toString(): k=v joined by &
RECURSIVE URLSearchParamsToString(_)
URLSearchParamsToString(entries) ==
    IF entries = <<>> THEN <<>>
    ELSE LET e == Head(entries)
             first == e[1] \o <<"=">> \o e[2]
         IN  IF Tail(entries) = <<>> THEN first
             ELSE first \o <<"&">> \o URLSearchParamsToString(Tail(entries))

\* bitgetApi.ts:171-178  the query string: '' without parameters, else '?' + ...
QueryString(params) ==
    IF params.defined /\ Len(params.entries) > 0
    THEN <<"?">> \o URLSearchParamsToString(params.entries)
    ELSE <<>>

\* JSON.stringify of a flat object of strings: {"k":"v",...}
RECURSIVE JSONMembers(_)
JSONMembers(entries) ==
    IF entries = <<>> THEN <<>>
    ELSE LET e == Head(entries)
             first == <<"\"">> \o e[1] \o <<"\"", ":", "\"">> \o e[2] \o <<"\"">>
         IN  IF Tail(entries) = <<>> THEN first
             ELSE first \o <<",">> \o JSONMembers(Tail(entries))

JSONStringify(entries) == <<"{">> \o JSONMembers(entries) \o <<"}">>

\* bitgetApi.ts:180  the serialized body: '' for a GET and without a body
RequestBody(method, body) ==
    IF method = <<"P", "O", "S", "T">> /\ body.defined
    THEN JSONStringify(body.entries)
    ELSE <<>>

HeaderNames ==
    {"ACCESS-KEY", "ACCESS-SIGN", "ACCESS-TIMESTAMP", "ACCESS-PASSPHRASE",
     "Content-Type", "locale"}

\* mutant of createHeaders: the passphrase header carries the timestamp
createHeaders_StampedPassphrase(method, requestPath, queryString, body, account, now) ==
    [h \in HeaderNames |->
        CASE h = "ACCESS-KEY" -> account.apiKey
          [] h = "ACCESS-SIGN" ->
                 generateSignature(method, requestPath, Str(queryString), Str(body),
                                   NumberToString(now), account.apiSecret)
          [] h = "ACCESS-TIMESTAMP" -> NumberToString(now)
          [] h = "ACCESS-PASSPHRASE" -> NumberToString(now)
          [] h = "Content-Type" -> "application/json"
          [] h = "locale" -> "en-US"]

\* bitgetApi.ts:115-158  createHeaders; now is the value of Date.now()
createHeaders(method, requestPath, queryString, body, account, now) ==
    LET timestamp == NumberToString(now)
        signature == generateSignature(method, requestPath, Str(queryString), Str(body),
                                       timestamp, account.apiSecret)
    IN  [h \in HeaderNames |->
            CASE h = "ACCESS-KEY" -> account.apiKey
              [] h = "ACCESS-SIGN" -> signature
              [] h = "ACCESS-TIMESTAMP" -> timestamp
              [] h = "ACCESS-PASSPHRASE" -> account.passphrase
              [] h = "Content-Type" -> "application/json"
              [] h = "locale" -> "en-US"]

\* mutant of SentBody: no body is ever handed to fetch
SentBody_Never(method, requestBody) == Undefined

\* bitgetApi.ts:202  body: method === 'POST' ? requestBody : undefined
SentBody(method, requestBody) ==
    IF method = <<"P", "O", "S", "T">> THEN Str(requestBody) ELSE Undefined

\* bitgetApi.ts:161-203  what makeApiRequest hands to fetch
FetchArgs(account, method, endpoint, params, body, now) ==
    LET requestPath == endpoint
        queryString == QueryString(params)
        requestBody == RequestBody(method, body)
        headers == createHeaders(method, requestPath, queryString, requestBody, account, now)
    IN  [url |-> requestPath \o queryString,
         method |-> method,
         headers |-> headers,
         body |-> SentBody(method, requestBody)]

RequestMethods == { <<"G", "E", "T">>, <<"P", "O", "S", "T">> }
Endpoints == { <<"/", "a">>, <<"/", "o", "/", "c">> }
Params ==
    { NoRecord, Rec(<<>>), Rec(<< <<<<"p">>, <<"u">>>> >>),
      Rec(<< <<<<"p">>, <<"u">>>>, <<<<"m">>, <<"U", "S">>>> >>) }
RequestBodies ==
    { NoRecord, Rec(<< <<<<"o">>, <<"1">>>> >>),
      Rec(<< <<<<"o">>, <<"1">>>>, <<<<"p">>, <<"u">>>> >>) }
Clock == {9, 10, 17}

\* one request built by makeApiRequest, recorded in front of the one before
\* it; two requests are enough to compare the client with itself
BuildRequest(account, method, endpoint, params, body, now) ==
    /\ Len(requests) < 2
    /\ requests' = << [account |-> account, method |-> method, endpoint |-> endpoint,
                       params |-> params, body |-> body, now |-> now,
                       fetch |-> FetchArgs(account, method, endpoint, params, body, now)] >>
                   \o requests
    /\ UNCHANGED <<accountVars, feedVars, quiet, signCall, reply, view, deskVars, priceVars>>

(***************************************************************************)
(* Request client, handling a response: the second half of makeApiRequest  *)
(* and the API calls on top of it (bitgetApi.ts:199-313)                   *)
(***************************************************************************)
ApiCalls == {"makeApiRequest", "getAccountBalance", "getPositions", "getOrders", "cancelOrder"}

\* HTTP responses of every status class, with and without an envelope that
\* reports success, and the rejected fetch
ReplyResponses ==
    { [threw |-> FALSE, status |-> st, body |-> b, code |-> c, msg |-> mg, data |-> d] :
          st \in {199, 200, 204, 299, 300, 404, 500}, b \in {"", "oops"},
          c \in {SuccessCode, "40001", ""}, mg \in {"success", "denied"},
          d \in {<<>>, <<"d1">>} }
        \cup {NetworkFailure}

Outcome(call, resp) ==
    CASE call = "makeApiRequest" -> makeApiRequest(resp)
      [] call = "getAccountBalance" -> getAccountBalance(resp)
      [] call = "getPositions" -> getPositions(resp)
      [] call = "getOrders" -> getOrders(resp)
      [] call = "cancelOrder" -> cancelOrder(resp)

\* one API call receives the response of its request
Reply(call, resp) ==
    /\ reply' = << [call |-> call, resp |-> resp, outcome |-> Outcome(call, resp)] >>
    /\ UNCHANGED <<accountVars, feedVars, quiet, signCall, requests, view, deskVars, priceVars>>

(***************************************************************************)
(* Rendering of an account's positions (App.tsx:89-96, 1035-1043)          *)
(***************************************************************************)
\* App.tsx:89-96  getApiSymbol: symbolMap[displaySymbol] || displaySymbol
getApiSymbol(displaySymbol) ==
    CASE displaySymbol = "BTCUSD.P" -> "BTCUSDT_UMCBL"
      [] displaySymbol = "ETHUSD.P" -> "ETHUSDT_UMCBL"
      [] displaySymbol = "BNBUSDT.P" -> "BNBUSDT_UMCBL"
      [] OTHER -> displaySymbol

Digits == {"0", "1", "2", "3", "4", "5", "6", "7", "8", "9"}

DigitValue(ch) == CHOOSE d \in 0..9 : DigitChar(d) = ch

\* the longest prefix of chars that consists of digits
RECURSIVE DigitPrefix(_)
DigitPrefix(chars) ==
    IF chars # <<>> /\ Head(chars) \in Digits
    THEN <<Head(chars)>> \o DigitPrefix(Tail(chars))
    ELSE <<>>

RECURSIVE DigitsValue(_)
DigitsValue(ds) ==
    IF ds = <<>> THEN 0
    ELSE 10 * DigitsValue(SubSeq(ds, 1, Len(ds) - 1)) + DigitValue(ds[Len(ds)])

NaN == [nan |-> TRUE, num |-> 0, scale |-> 0]

\* mutant of parseFloat: the fraction is not read (parseInt)
parseFloat_IntegerPart(chars) ==
    LET signed == chars # <<>> /\ Head(chars) \in {"-", "+"}
        rest == IF signed THEN Tail(chars) ELSE chars
        int == DigitPrefix(rest)
    IN  IF int = <<>> THEN NaN
        ELSE [nan |-> FALSE,
              num |-> (IF signed /\ Head(chars) = "-" THEN -1 ELSE 1) * DigitsValue(int),
              scale |-> 0]

\* parseFloat of a string: an optional sign, digits, an optional fraction; NaN
\* when no digit is found; the number is num / 10^scale
parseFloat(chars) ==
    LET signed == chars # <<>> /\ Head(chars) \in {"-", "+"}
        rest == IF signed THEN Tail(chars) ELSE chars
        int == DigitPrefix(rest)
        after == SubSeq(rest, Len(int) + 1, Len(rest))
        frac == IF after # <<>> /\ Head(after) = "." THEN DigitPrefix(Tail(after)) ELSE <<>>
    IN  IF int = <<>> /\ frac = <<>> THEN NaN
        ELSE [nan |-> FALSE,
              num |-> (IF signed /\ Head(chars) = "-" THEN -1 ELSE 1)
                          * DigitsValue(int \o frac),
              scale |-> Len(frac)]

\* x !== 0 for the result of parseFloat (NaN !== 0 is true, -0 !== 0 is false)
NotZero(x) == x.nan \/ x.num # 0

\* a string is truthy unless it is missing or empty
Truthy(x) == x.defined /\ x.str # <<>>

\* App.tsx:1039-1042  the filter predicate
ShownPosition(position, selectedApiSymbol) ==
    /\ position.symbol = selectedApiSymbol
    /\ Truthy(position.total)
    /\ NotZero(parseFloat(position.total.str))

\* Array.prototype.filter
RECURSIVE Filter(_, _)
Filter(positions, selectedApiSymbol) ==
    IF positions = <<>> THEN <<>>
    ELSE (IF ShownPosition(Head(positions), selectedApiSymbol)
          THEN <<Head(positions)>> ELSE <<>>)
             \o Filter(Tail(positions), selectedApiSymbol)

\* App.tsx:1035-1043
filteredPositions(positions, symbol) == Filter(positions, getApiSymbol(symbol))

\* sizes the exchange reports: decimal numerals, the empty string, or none
Totals ==
    { Undefined, Str(<<>>), Str(<<"0">>), Str(<<"0", ".", "0">>), Str(<<"0", ".", "0", "0">>),
      Str(<<"-", "0">>), Str(<<"0", ".", "5">>), Str(<<"0", ".", "0", "5">>),
      Str(<<"2">>), Str(<<"1", "0">>), Str(<<"-", "1", ".", "5">>) }

RenderedPositions ==
    [symbol : {"BTCUSDT_UMCBL", "ETHUSDT_UMCBL", "SOLUSDT_UMCBL"}, total : Totals]

PositionLists == UNION {[1..n -> RenderedPositions] : n \in 0..MaxPositions}

\* symbols that can be selected: the three of the selector and the default
\* symbol of a configuration that names another one
SelectableSymbols == DisplaySymbols \cup {"SOLUSDT_UMCBL"}

\* an account card is rendered for the selected symbol; one rendering shows
\* all there is to see of the filter
Render(positions, symbol) ==
    /\ view = <<>>
    /\ view' = << [positions |-> positions, symbol |-> symbol,
                   filteredPositions |-> filteredPositions(positions, symbol)] >>
    /\ UNCHANGED <<accountVars, feedVars, quiet, signCall, requests, reply, deskVars, priceVars>>

(***************************************************************************)
(* Portfolio summary: getSummaryData (App.tsx:538-581)                     *)
(* The objects the exchange returns are known by name; the fields the      *)
(* dashboard reads of them are looked up.                                  *)
(***************************************************************************)
\* BitgetAccountBalance.usdtEquity of the balance objects
BalanceFields(b) ==
    CASE b = "b1" -> [usdtEquity |-> Str(<<"1", ".", "5">>)]
      [] b = "b2" -> [usdtEquity |-> Str(<<>>)]
      [] OTHER -> [usdtEquity |-> Undefined]

\* BitgetPosition.holdSide, total, unrealizedPL of the position objects: p1 and
\* p4 are held, p2 and p3 are reported with a size of zero
PositionFields(q) ==
    CASE q = "p1" -> [holdSide |-> "long", total |-> Str(<<"2">>),
                      unrealizedPL |-> Str(<<"0", ".", "5">>)]
      [] q = "p2" -> [holdSide |-> "long", total |-> Str(<<"0">>),
                      unrealizedPL |-> Str(<<"0">>)]
      [] q = "p3" -> [holdSide |-> "short", total |-> Str(<<"0", ".", "0">>),
                      unrealizedPL |-> Undefined]
      [] q = "p4" -> [holdSide |-> "short", total |-> Str(<<"1", "0">>),
                      unrealizedPL |-> Str(<<"-", "1", ".", "5">>)]
      [] OTHER -> [holdSide |-> "none", total |-> Undefined, unrealizedPL |-> Undefined]

\* JSON null where the envelope should hold a list, written as a list of
\* markers that is longer than every list of positions or orders
NullData == [i \in 1..(MaxPositions + MaxOrders + 1) |-> "null"]
IsArray(x) == Len(x) # Len(NullData)

\* x || '0'
OrZero(x) == IF Truthy(x) THEN x.str ELSE <<"0">>

RECURSIVE Pow10(_)
Pow10(n) == IF n = 0 THEN 1 ELSE 10 * Pow10(n - 1)

\* a + b on numbers num / 10^scale; NaN is absorbing
Plus(a, b) ==
    IF a.nan \/ b.nan THEN NaN
    ELSE LET sc == IF a.scale > b.scale THEN a.scale ELSE b.scale
         IN  [nan |-> FALSE,
              num |-> a.num * Pow10(sc - a.scale) + b.num * Pow10(sc - b.scale),
              scale |-> sc]

Zero == [nan |-> FALSE, num |-> 0, scale |-> 0]

NoTotals ==
    [totalBalance |-> Zero, totalPnL |-> Zero, totalPositions |-> 0, totalOrders |-> 0,
     totalLongPositions |-> 0, totalShortPositions |-> 0, accountsCount |-> 0]

\* App.tsx:557-566  the body of positions.forEach
CountPosition(t, position) ==
    [t EXCEPT
        !.totalPositions = @ + 1,
        !.totalPnL = Plus(@, parseFloat(OrZero(position.unrealizedPL))),
        !.totalLongPositions = IF position.holdSide = "long" THEN @ + 1 ELSE @,
        !.totalShortPositions = IF position.holdSide = "long" THEN @ ELSE @ + 1]

RECURSIVE CountPositions(_, _)
CountPositions(t, positions) ==
    IF positions = <<>> THEN t
    ELSE CountPositions(CountPosition(t, PositionFields(Head(positions))), Tail(positions))

\* App.tsx:550-570  the body of enabledAccounts.forEach for the entries from
\* the i-th on; positions.forEach and orders.length throw a TypeError on null
RECURSIVE SumAccounts(_, _, _)
SumAccounts(t, entries, i) ==
    IF i > Len(entries) THEN Return(t)
    ELSE LET accountData == entries[i]
             withBalance ==
                 IF accountData.balance # Null
                 THEN [t EXCEPT !.totalBalance =
                          Plus(@, parseFloat(OrZero(BalanceFields(accountData.balance).usdtEquity)))]
                 ELSE t
         IN  IF ~IsArray(accountData.positions) \/ ~IsArray(accountData.orders)
             THEN Throw(<<"TypeError">>)
             ELSE SumAccounts(
                      [CountPositions(withBalance, accountData.positions) EXCEPT
                          !.totalOrders = @ + Len(accountData.orders)],
                      entries, i + 1)

\* App.tsx:538-581
getSummaryData(table) ==
    LET enabled == SelectSeq(ObjectValues(table), LAMBDA data : data.account.enabled)
    IN  SumAccounts([NoTotals EXCEPT !.accountsCount = Len(enabled)], enabled, 1)

NoSummary == [rendered |-> FALSE, table |-> <<>>, result |-> Return(NoTotals)]

\* App.tsx:745-746  the dashboard is rendered and the summary block calls
\* getSummaryData; the first rendering that is observed is kept
RenderSummary ==
    /\ ~summary.rendered
    /\ DOMAIN accountsData # {}
    /\ summary' = [rendered |-> TRUE, table |-> accountsData,
                   result |-> getSummaryData(accountsData)]
    /\ UNCHANGED <<accountVars, feedVars, pureVars, quiet, batch, polling, priceVars>>

(***************************************************************************)
(* Price ticks: ws.onmessage (App.tsx:226-294), fetchInitialPrices         *)
(* (App.tsx:149-194)                                                       *)
(***************************************************************************)
\* a || b on strings that may be missing
Or(a, b) == IF Truthy(a) THEN a ELSE b

\* parseFloat of a value that may be undefined (NaN)
parseFloatOf(x) == IF x.defined THEN parseFloat(x.str) ELSE NaN

\* x * 100
Times100(x) == IF x.nan THEN NaN ELSE [x EXCEPT !.num = @ * 100]

\* the ticker objects of the stream, under the field names the exchange has
\* used: last / lastPr / lastPrice, change24h / chgUTC / changePercentage,
\* baseVolume / volCcy24h / volume
StreamTicker(last, lastPr, lastPrice, change24h, chgUTC, changePercentage, baseVolume, volCcy24h, volume) ==
    [last |-> last, lastPr |-> lastPr, lastPrice |-> lastPrice,
     change24h |-> change24h, chgUTC |-> chgUTC, changePercentage |-> changePercentage,
     baseVolume |-> baseVolume, volCcy24h |-> volCcy24h, volume |-> volume]

NoTicker ==
    StreamTicker(Undefined, Undefined, Undefined, Undefined, Undefined, Undefined,
                 Undefined, Undefined, Undefined)

\* event.data: the text 'pong', a text that is not JSON, the JSON text null,
\* or a JSON object {arg: {channel, instId}, data: [...]} (arg and data may be
\* missing)
Pong == [text |-> "pong", hasArg |-> FALSE, channel |-> "", instId |-> "",
         hasData |-> FALSE, data |-> <<>>]
Garbage == [Pong EXCEPT !.text = "garbage"]
JsonNull == [Pong EXCEPT !.text = "null"]
Json(hasArg, channel, instId, hasData, data) ==
    [text |-> "json", hasArg |-> hasArg, channel |-> channel, instId |-> instId,
     hasData |-> hasData, data |-> data]

\* symbols.find((s) => s.api === instId): the index, 0 for undefined
find(instId) ==
    IF \E i \in 1..Len(symbols) : symbols[i].api = instId
    THEN CHOOSE i \in 1..Len(symbols) :
             /\ symbols[i].api = instId
             /\ \A j \in 1..(i - 1) : symbols[j].api # instId
    ELSE 0

\* mutant of setPriceData: the other ticks are not carried over
setPriceData_DropsOthers(prev, tick) == Put(<<>>, tick.symbol, tick)

\* App.tsx:268-277, 173-182  setPriceData((prev) => ({...prev, [display]: tick}))
setPriceData(prev, tick) == Put(prev, tick.symbol, tick)

\* what a handler leaves: priceData and currentPrice
Prices(ticks, price) == [priceData |-> ticks, currentPrice |-> price]

\* App.tsx:226-294  ws.onmessage with the selectedSymbol of its closure; the
\* catch covers JSON.parse and every property read of a value that is null or
\* undefined
onmessage(event, sel, ticks, current, now) ==
    IF event.text = "pong" THEN Prices(ticks, current)
    ELSE IF event.text # "json" THEN Prices(ticks, current)
    ELSE IF ~(event.hasArg /\ event.channel = "ticker" /\ event.hasData)
         THEN Prices(ticks, current)
    ELSE IF find(event.instId) = 0 THEN Prices(ticks, current)
    ELSE IF event.data = <<>> THEN Prices(ticks, current)
    ELSE LET tickerData == event.data[1]
             symbolInfo == symbols[find(event.instId)]
             price == parseFloatOf(Or(Or(tickerData.last, tickerData.lastPr),
                                      tickerData.lastPrice))
             change24h == Times100(parseFloatOf(
                              Or(Or(tickerData.change24h, tickerData.chgUTC),
                                 tickerData.changePercentage)))
             volume24h == parseFloatOf(
                              Or(Or(Or(tickerData.baseVolume, tickerData.volCcy24h),
                                    tickerData.volume),
                                 Str(<<"0">>)))
         IN  Prices(setPriceData(ticks,
                                 [symbol |-> symbolInfo.display, price |-> price,
                                  change24h |-> change24h, volume24h |-> volume24h,
                                  lastUpdate |-> now]),
                    IF symbolInfo.display = sel THEN price ELSE current)

\* the response of the REST ticker endpoint: a rejected fetch or a body that
\* is not JSON (threw), or a response with ok, code and data (a ticker object
\* with last, priceChangePercent, baseVolume, or null)
RestTicker(last, priceChangePercent, baseVolume) ==
    [threw |-> FALSE, ok |-> TRUE, code |-> SuccessCode, hasData |-> TRUE,
     last |-> last, priceChangePercent |-> priceChangePercent, baseVolume |-> baseVolume]
RestNoData == [RestTicker(Undefined, Undefined, Undefined) EXCEPT !.hasData = FALSE]
RestDenied == [RestNoData EXCEPT !.code = "40001"]
RestHttpError == [RestNoData EXCEPT !.ok = FALSE]
RestThrew == [RestNoData EXCEPT !.threw = TRUE, !.ok = FALSE]

\* App.tsx:152-192  one pass of the loop of fetchInitialPrices after the
\* ticker request of symbol settled
InitialPrice(resp, symbol, sel, ticks, current, now) ==
    IF resp.threw \/ ~resp.ok \/ resp.code # SuccessCode \/ ~resp.hasData
    THEN Prices(ticks, current)
    ELSE LET price == parseFloatOf(resp.last)
         IN  Prices(setPriceData(ticks,
                                 [symbol |-> symbol.display, price |-> price,
                                  change24h |-> Times100(parseFloatOf(resp.priceChangePercent)),
                                  volume24h |-> parseFloatOf(Or(resp.baseVolume, Str(<<"0">>))),
                                  lastUpdate |-> now]),
                    IF symbol.display = sel THEN price ELSE current)

NothingReceived == [from |-> "none", socket |-> 0, event |-> Pong, resp |-> RestThrew, now |-> 0]

\* App.tsx:226-294 with 340-345  a message arrives on socket i (message events
\* are delivered on an OPEN socket only): onmessage of the effect run that
\* created the socket, then the current price effect
WsMessage(i, event, now) ==
    LET after == onmessage(event, sessions[sockets[i].session].selectedSymbol,
                           priceData, currentPrice, now)
    IN  /\ sockets[i].readyState = "OPEN"
        /\ priceData' = after.priceData
        /\ currentPrice' = CurrentPriceEffect(selectedSymbol, after.priceData,
                                              after.currentPrice)
        /\ received' = [from |-> "stream", socket |-> i, event |-> event,
                        resp |-> RestThrew, now |-> now]
        /\ UNCHANGED <<accountVars, feedVars, pureVars, quiet, deskVars, initial>>

\* App.tsx:152-192 with 340-345  the ticker request that fetchInitialPrices of
\* socket i has in flight settles, whatever has become of the socket and of
\* the effect run; the next request is issued
InitialPriceResponse(i, resp, now) ==
    LET after == InitialPrice(resp, symbols[initial[i]],
                              sessions[sockets[i].session].selectedSymbol,
                              priceData, currentPrice, now)
    IN  /\ i <= Len(sockets)
        /\ initial[i] \in 1..Len(symbols)
        /\ priceData' = after.priceData
        /\ currentPrice' = CurrentPriceEffect(selectedSymbol, after.priceData,
                                              after.currentPrice)
        /\ initial' = [initial EXCEPT ![i] = @ + 1]
        /\ received' = [from |-> "rest", socket |-> i, event |-> Pong,
                        resp |-> resp, now |-> now]
        /\ UNCHANGED <<accountVars, feedVars, pureVars, quiet, deskVars>>

(***************************************************************************)
(* REST polling of the prices: fetchPrices of the earlier iteration of App *)
(* (App.tsx:1399-1461), which has no WebSocket                              *)
(***************************************************************************)
\* wsConnected, priceData and currentPrice of that iteration (App.tsx:1364-
\* 1367); pc "idle" or "await" with idx the symbol whose ticker request is in
\* flight; outcomes: which requests of the round under way gave a price;
\* lastRound: the same for the round completed last (<<>> before the first);
\* goodRound: some completed round had a request that gave a price
NotPolling ==
    [wsConnected |-> FALSE, priceData |-> <<>>, currentPrice |-> Zero,
     pc |-> "idle", idx |-> 0, outcomes |-> <<>>, lastRound |-> <<>>, goodRound |-> FALSE]

\* App.tsx:1407-1449  the flag a round leaves: the inner try/catch takes every
\* failure of a request, so the outer catch with setWsConnected(false) is
\* never entered
RoundFlag(flag, outcomes) == flag

\* App.tsx:1406-1413, 1453-1456  fetchPrices is called (mount, or the 2 s
\* interval while no round is under way): the flag is set, the first ticker
\* request is issued
fetchPrices ==
    /\ polling.pc = "idle"
    /\ polling' = [polling EXCEPT !.wsConnected = TRUE, !.pc = "await", !.idx = 1,
                                  !.outcomes = <<>>]
    /\ UNCHANGED <<accountVars, feedVars, pureVars, quiet, batch, summary, priceVars>>

\* App.tsx:1410-1445  the ticker request in flight settles: the loop body,
\* which is that of fetchInitialPrices, then the next request or the end of
\* the round
PriceResponse(resp, now) ==
    LET symbol == symbols[polling.idx]
        after == InitialPrice(resp, symbol, selectedSymbol, polling.priceData,
                              polling.currentPrice, now)
        gave == ~(resp.threw \/ ~resp.ok \/ resp.code # SuccessCode \/ ~resp.hasData)
        outcomes == Append(polling.outcomes, gave)
        last == polling.idx = Len(symbols)
    IN  /\ polling.pc = "await"
        /\ polling' =
               [wsConnected |-> IF last THEN RoundFlag(polling.wsConnected, outcomes)
                                ELSE polling.wsConnected,
                priceData |-> after.priceData,
                currentPrice |-> CurrentPriceEffect(selectedSymbol, after.priceData,
                                                    after.currentPrice),
                pc |-> IF last THEN "idle" ELSE "await",
                idx |-> IF last THEN 0 ELSE polling.idx + 1,
                outcomes |-> outcomes,
                lastRound |-> IF last THEN outcomes ELSE polling.lastRound,
                goodRound |-> IF last
                              THEN polling.goodRound \/ \E i \in 1..Len(outcomes) : outcomes[i]
                              ELSE polling.goodRound]
        /\ UNCHANGED <<accountVars, feedVars, pureVars, quiet, batch, summary, priceVars>>

(***************************************************************************)
(* Specifications                                                          *)
(***************************************************************************)
Init ==
    /\ config = "null"
    /\ accountsData = <<>>
    /\ cycles = [c \in CycleIds |-> IdleCycle]
    /\ cancels = [k \in CancelIds |-> IdleCancel]
    /\ lastCancel = Ended("none", 0)
    /\ delivered = "none"
    /\ selectedSymbol = "BTCUSD.P"
    /\ wsConnected = FALSE
    /\ sessions = <<>>
    /\ sockets = <<>>
    /\ signCall = <<>>
    /\ requests = <<>>
    /\ reply = <<>>
    /\ view = <<>>
    /\ quiet = Active
    /\ batch = IdleBatch
    /\ summary = NoSummary
    /\ polling = NotPolling
    /\ priceData = <<>>
    /\ currentPrice = Zero
    /\ initial = [i \in 1..MaxSockets |-> 0]
    /\ received = NothingReceived

\* The account data fetcher: overlapping refresh cycles; the orders call fails
\* in all three ways, the balance and positions calls by status and by
\* envelope code; order lists of at most one order.
FetchOrderData == {<<>>, <<[orderId |-> "o1", clientOid |-> "x"]>>}

NextFetch ==
    \/ LoadConfig
    \/ \E c \in CycleIds : Refresh(c)
    \/ \E c \in CycleIds, resp \in Responses(BalanceData) \ {NetworkFailure} :
           BalanceResponse(c, resp)
    \/ \E c \in CycleIds, resp \in Responses(PositionData) \ {NetworkFailure} :
           PositionsResponse(c, resp)
    \/ \E c \in CycleIds, resp \in Responses(FetchOrderData) : OrdersResponse(c, resp)

SpecFetch == Init /\ [][NextFetch]_vars

\* The account data fetcher with one refresh cycle at a time (every cycle
\* completes before the next one starts), every failure kind of every call.
NextRefresh ==
    \/ LoadConfig
    \/ Refresh(1)
    \/ \E resp \in Responses(BalanceData) : BalanceResponse(1, resp)
    \/ \E resp \in Responses(PositionData) : PositionsResponse(1, resp)
    \/ \E resp \in Responses(FetchOrderData) : OrdersResponse(1, resp)

SpecRefresh == Init /\ [][NextRefresh]_vars

\* The cancel handler over tables filled by refresh cycles that do not
\* overlap: every order list, one balance, one position list and one failure
\* kind for the balance and positions calls.
NextCancel ==
    \/ LoadConfig
    \/ Refresh(1)
    \/ \E resp \in {ApiFailure, Success(<<"b1">>)} : BalanceResponse(1, resp)
    \/ \E resp \in {ApiFailure, Success(<<"p1">>)} : PositionsResponse(1, resp)
    \/ \E resp \in Responses(OrderData) : OrdersResponse(1, resp)
    \/ \E k \in CancelIds, order \in Orders, accountId \in AccountIds :
           handleCancelOrder(k, order, accountId)
    \/ \E k \in CancelIds, resp \in Responses({<<>>}) : CancelResponse(k, resp)

SpecCancel == Init /\ [][NextCancel]_vars

\* Refresh cycles one at a time, before and after account activity stops.
NextIdem ==
    \/ LoadConfig
    \/ Refresh(1)
    \/ Quiesce
    \/ \E resp \in Responses(BalanceData) :
           BalanceResponse(1, resp) /\ Replays(quiet, resp)
    \/ \E resp \in Responses(PositionData) :
           PositionsResponse(1, resp) /\ Replays(quiet, resp)
    \/ \E resp \in Responses(FetchOrderData) :
           OrdersResponse(1, resp) /\ Replays(quiet, resp)

SpecIdem == Init /\ [][NextIdem]_vars

\* Overlapping refresh cycles of which the first slot's may wait for ever for
\* a response: the auto-refresh interval (App.tsx:477-480) keeps firing and
\* every request of the other cycles is answered.
NextHang ==
    \/ LoadConfig
    \/ \E c \in CycleIds : Refresh(c)
    \/ \E c \in CycleIds, resp \in {ApiFailure, Success(<<"b1">>)} : BalanceResponse(c, resp)
    \/ \E c \in CycleIds : PositionsResponse(c, Success(<<"p1">>))
    \/ \E c \in CycleIds : OrdersResponse(c, Success(<<>>))

AnswerTo(c) ==
    \/ \E resp \in {ApiFailure, Success(<<"b1">>)} : BalanceResponse(c, resp)
    \/ PositionsResponse(c, Success(<<"p1">>))
    \/ OrdersResponse(c, Success(<<>>))

SpecHang ==
    /\ Init
    /\ [][NextHang]_vars
    /\ WF_vars(LoadConfig)
    /\ WF_vars(\E c \in CycleIds : Refresh(c))
    /\ \A c \in CycleIds \ {1} : WF_vars(AnswerTo(c))

\* Overlapping refresh cycles and cancel handlers, with data that tells where
\* it comes from: the exchange stamps what it returns with the account and
\* with a mark t, the balance call of an activation getting any mark and its
\* positions and orders calls the mark of its balance.
NextRace ==
    \/ LoadConfig
    \/ \E c \in CycleIds : Refresh(c)
    \/ \E c \in CycleIds :
           /\ cycles[c].pc = "balance"
           /\ \E resp \in {ApiFailure}
                   \cup {Success(<<Stamp(enabledAccounts[cycles[c].idx].id, t)>>) : t \in Marks} :
                  BalanceResponse(c, resp)
    \/ \E c \in CycleIds :
           /\ cycles[c].pc = "positions"
           /\ \E resp \in {ApiFailure, Success(<<cycles[c].balance>>)} :
                  PositionsResponse(c, resp)
    \/ \E c \in CycleIds :
           /\ cycles[c].pc = "orders"
           /\ \E resp \in {ApiFailure, Success(StampedOrders(cycles[c].balance))} :
                  OrdersResponse(c, resp)
    \/ \E k \in CancelIds, id \in AccountIds :
           /\ id \in DOMAIN accountsData
           /\ \E i \in 1..Len(accountsData[id].orders) :
                  handleCancelOrder(k, accountsData[id].orders[i], id)
    \/ \E k \in CancelIds, resp \in {ApiFailure, Success(<<>>)} : CancelResponse(k, resp)

SpecRace == Init /\ [][NextRace]_vars

\* One cancel against refresh cycles in flight: the cancel button of order o1
\* of account "1" is pressed once; no refresh cycle starts after that, and
\* once the cancel has succeeded only orders calls settle, so that every
\* order list delivered after the removal answers a request that a cycle in
\* flight at the time of the cancel had sent before the exchange cancelled.
StaleAccount == "1"
StaleOrderId == "o1"

NextStale ==
    \/ LoadConfig
    \/ \E c \in CycleIds :
           /\ lastCancel.result = "none"
           /\ \A k \in CancelIds : cancels[k].pc = "idle"
           /\ Refresh(c)
    \/ \E c \in CycleIds :
           /\ cycles[c].pc = "balance"
           /\ lastCancel.result # "ok"
           /\ \E resp \in {ApiFailure}
                   \cup {Success(<<Stamp(enabledAccounts[cycles[c].idx].id, t)>>) : t \in Marks} :
                  BalanceResponse(c, resp)
    \/ \E c \in CycleIds :
           /\ cycles[c].pc = "positions"
           /\ lastCancel.result # "ok"
           /\ \E resp \in {ApiFailure, Success(<<cycles[c].balance>>)} :
                  PositionsResponse(c, resp)
    \/ \E c \in CycleIds :
           /\ cycles[c].pc = "orders"
           /\ \E resp \in {ApiFailure, Success(StampedOrders(cycles[c].balance))} :
                  OrdersResponse(c, resp)
    \/ \E k \in CancelIds :
           /\ lastCancel.result = "none"
           /\ StaleAccount \in DOMAIN accountsData
           /\ \E i \in 1..Len(accountsData[StaleAccount].orders) :
                  /\ accountsData[StaleAccount].orders[i].orderId = StaleOrderId
                  /\ handleCancelOrder(k, accountsData[StaleAccount].orders[i], StaleAccount)
    \/ \E k \in CancelIds, resp \in {ApiFailure, Success(<<>>)} : CancelResponse(k, resp)

SpecStale == Init /\ [][NextStale]_vars

\* Two refresh cycles of known age: slot 1 holds the cycle the configuration
\* load starts, slot 2 a cycle started while that one is in flight (477-480,
\* 717-722); the exchange stamps what it returns to the older cycle with t1
\* and to the younger with t2.
SlotMark(c) == IF c = 1 THEN "t1" ELSE "t2"

NextOverlap ==
    \/ LoadConfig
    \/ Refresh(2)
    \/ \E c \in CycleIds :
           /\ cycles[c].pc = "balance"
           /\ \E resp \in {ApiFailure,
                           Success(<<Stamp(enabledAccounts[cycles[c].idx].id, SlotMark(c))>>)} :
                  BalanceResponse(c, resp)
    \/ \E c \in CycleIds :
           /\ cycles[c].pc = "positions"
           /\ \E resp \in {ApiFailure, Success(<<cycles[c].balance>>)} :
                  PositionsResponse(c, resp)
    \/ \E c \in CycleIds :
           /\ cycles[c].pc = "orders"
           /\ \E resp \in {ApiFailure, Success(StampedOrders(cycles[c].balance))} :
                  OrdersResponse(c, resp)

SpecOverlap == Init /\ [][NextOverlap]_vars

\* The signer on every combination of the arguments.
NextSign ==
    \E method \in Methods, requestPath \in Paths, queryString \in Queries,
       body \in Bodies, timestamp \in Timestamps, secretKey \in Secrets :
        Sign(method, requestPath, queryString, body, timestamp, secretKey)

SpecSign == Init /\ [][NextSign]_vars

\* The request client on every combination of the arguments and the clock.
NextBuild ==
    \E account \in ApiAccounts, method \in RequestMethods, endpoint \in Endpoints,
       params \in Params, body \in RequestBodies, now \in Clock :
        BuildRequest(account, method, endpoint, params, body, now)

SpecBuild == Init /\ [][NextBuild]_vars

\* The API calls on every response.
NextReply == \E call \in ApiCalls, resp \in ReplyResponses : Reply(call, resp)

SpecReply == Init /\ [][NextReply]_vars

\* The rendering of every position list for every symbol.
NextRender ==
    /\ view = <<>>
    /\ \E positions \in PositionLists, symbol \in SelectableSymbols : Render(positions, symbol)

SpecRender == Init /\ [][NextRender]_vars

\* Cancel-all over tables filled by overlapping refresh cycles: stamped order
\* lists of two orders, every failure kind of the cancel call.
NextBatch ==
    \/ LoadConfig
    \/ \E c \in CycleIds : Refresh(c)
    \/ \E c \in CycleIds : BalanceResponse(c, Success(<<"b1">>))
    \/ \E c \in CycleIds : PositionsResponse(c, Success(<<"p1">>))
    \/ \E c \in CycleIds, resp \in {ApiFailure, Success(StampedOrders("x")), Success(<<>>)} :
           OrdersResponse(c, resp)
    \/ handleCancelAllOrders
    \/ \E resp \in Responses({<<>>}) : CancelAllResponse(resp)

SpecBatch == Init /\ [][NextBatch]_vars

\* The dashboard over tables filled by one refresh cycle at a time, observed
\* up to its first rendering: every list of up to MaxPositions of the four
\* position objects, a balance with equity, one order, a failure of each call,
\* and a success envelope whose data is null for the positions and the orders
\* call.
DeskPositionData ==
    UNION {[1..n -> {"p1", "p2", "p3", "p4"}] : n \in 0..MaxPositions} \cup {NullData}

NextDesk ==
    \/ /\ ~summary.rendered
       /\ \/ LoadConfig
          \/ Refresh(1)
          \/ \E resp \in {ApiFailure, Success(<<"b1">>)} : BalanceResponse(1, resp)
          \/ \E resp \in {HttpFailure} \cup {Success(d) : d \in DeskPositionData} :
                 PositionsResponse(1, resp)
          \/ \E resp \in {NetworkFailure, Success(NullData),
                           Success(<<[orderId |-> "o1", clientOid |-> "x"]>>)} :
                 OrdersResponse(1, resp)
    \/ RenderSummary

SpecDesk == Init /\ [][NextDesk]_vars

\* The stream messages of one connection: every kind of message, the ticker
\* objects under every field name, for the configured instruments and another.
One == Str(<<"1">>)
Two == Str(<<"2">>)
Half == Str(<<"0", ".", "5">>)
StreamTickers ==
    { StreamTicker(One, Undefined, Undefined, Half, Undefined, Undefined,
                   Two, Undefined, Undefined),
      StreamTicker(Undefined, Two, Undefined, Undefined, Half, Undefined,
                   Undefined, One, Undefined),
      StreamTicker(Str(<<>>), Undefined, One, Undefined, Undefined, Half,
                   Undefined, Undefined, Two),
      StreamTicker(Two, One, One, Undefined, Undefined, Undefined,
                   Str(<<>>), Undefined, Undefined),
      NoTicker }

InstIds == {symbols[i].api : i \in 1..Len(symbols)} \cup {"SOLUSDT_UMCBL"}

StreamEvents ==
    {Pong, Garbage, JsonNull,
     Json(FALSE, "", "", FALSE, <<>>),
     Json(TRUE, "ticker", "BTCUSDT_UMCBL", FALSE, <<>>),
     Json(TRUE, "ticker", "ETHUSDT_UMCBL", TRUE, <<>>),
     Json(TRUE, "trade", "BTCUSDT_UMCBL", TRUE, <<NoTicker>>)}
        \cup {Json(TRUE, "ticker", instId, TRUE, <<t>>) : instId \in InstIds, t \in StreamTickers}

NextTick ==
    \/ StartFeed
    \/ \E i \in 1..Len(sockets) : WsOpen(i)
    \/ \E i \in 1..Len(sockets) : WsClose(i)
    \/ \E i \in 1..Len(sockets), event \in StreamEvents : WsMessage(i, event, 9)

SpecTick == Init /\ [][NextTick]_vars

\* The prices across symbol changes: the feed with its effect runs and their
\* first connections, ticker messages with one of two prices for every
\* configured instrument, and the initial ticker responses, failed or with a
\* price.
PriceEvents ==
    {Json(TRUE, "ticker", symbols[i].api, TRUE,
          <<StreamTicker(last, Undefined, Undefined, Undefined, Undefined, Undefined,
                         Undefined, Undefined, Undefined)>>) :
        i \in 1..Len(symbols), last \in {One, Two}}

NextPrice ==
    \/ StartFeed
    \/ \E sym \in DisplaySymbols : SelectSymbol(sym)
    \/ \E i \in 1..Len(sockets) : WsOpen(i)
    \/ \E i \in 1..Len(sockets) : WsClose(i)
    \/ \E i \in 1..Len(sockets), event \in PriceEvents : WsMessage(i, event, 9)
    \/ \E i \in 1..Len(sockets),
          resp \in {RestThrew, RestHttpError, RestDenied, RestNoData,
                    RestTicker(Two, Half, One)} :
           InitialPriceResponse(i, resp, 9)

SpecPrice == Init /\ [][NextPrice]_vars

\* The polling iteration: rounds one after another, every kind of ticker
\* response.
NextPoll ==
    \/ fetchPrices
    \/ \E resp \in {RestThrew, RestHttpError, RestDenied, RestNoData,
                     RestTicker(Two, Half, One)} :
           PriceResponse(resp, 9)

SpecPoll == Init /\ [][NextPoll]_vars

\* The price feed: effect runs, sockets, timers.
NextFeed ==
    \/ StartFeed
    \/ \E sym \in DisplaySymbols : SelectSymbol(sym)
    \/ \E i \in 1..Len(sockets) : WsOpen(i)
    \/ \E i \in 1..Len(sockets) : WsClose(i)
    \/ \E s \in 1..Len(sessions) : ReconnectFire(s)
    \/ \E s \in 1..Len(sessions) : PingFire(s)

SpecFeed == Init /\ [][NextFeed]_vars

(***************************************************************************)
(* Claims about the account data fetcher (checked under SpecFetch)         *)
(***************************************************************************)
FailureKinds == {"network", "http", "api"}

\* the step is the continuation of activation c after the await at pc
Settles(c, pc) == cycles[c].pc = pc /\ cycles'[c] # cycles[c]

\* the account activation c is fetching
AccountOf(c) == enabledAccounts[cycles[c].idx].id

\* the error property an account's entry holds (none without an entry)
ErrorOf(table, id) == IF id \in DOMAIN table THEN table[id].error ELSE NoError

\* C1: in every refresh cycle in which the balance and positions calls of an
\* account succeeded and its orders call fails (network error, non-2xx status
\* or non-success envelope code), the cycle ends for that account with
\* loading false, no error recorded by this cycle (the error property is what
\* it was), balance and positions those of this cycle's responses, and
\* orders the empty list.
C1_OrdersFailureYieldsEmptyOrders ==
    [][\A c \in CycleIds :
          (Settles(c, "orders") /\ delivered' \in FailureKinds)
          => /\ AccountOf(c) \in DOMAIN accountsData'
             /\ accountsData'[AccountOf(c)].loading = FALSE
             /\ accountsData'[AccountOf(c)].error = ErrorOf(accountsData, AccountOf(c))
             /\ accountsData'[AccountOf(c)].balance = cycles[c].balance
             /\ accountsData'[AccountOf(c)].positions = cycles[c].positionsData
             /\ accountsData'[AccountOf(c)].orders = <<>>]_vars

\* C1 witness: the response delivered last is a network failure (in SpecFetch
\* only the orders call fails that way) and an account is loaded with a
\* balance, a position, no orders and no error.
C1_Witness ==
    /\ delivered = "network"
    /\ \E id \in DOMAIN accountsData :
          /\ ~accountsData[id].loading
          /\ accountsData[id].balance # Null
          /\ accountsData[id].positions # <<>>
          /\ accountsData[id].orders = <<>>
          /\ accountsData[id].error = NoError

\* the first words of the message a failure of that kind is thrown with
MessageHead(kind) ==
    IF kind = "http" THEN "HTTP error! status: "
    ELSE IF kind = "api" THEN "API Error: "
    ELSE "Failed to fetch"

\* C2: when the balance call or the positions call of an enabled account
\* fails, the error message is recorded in that account's entry (loading
\* false, error set), every other entry of the table is unchanged by that
\* write, and the cycle goes on: the balance call of the next enabled account
\* of the configuration is issued (the activation returns only after the
\* last enabled account).
C2_FailureRecordedForThatAccountOnly ==
    [][\A c \in CycleIds :
          ((Settles(c, "balance") \/ Settles(c, "positions")) /\ delivered' \in FailureKinds)
          => /\ DOMAIN accountsData' = DOMAIN accountsData
             /\ AccountOf(c) \in DOMAIN accountsData'
             /\ accountsData'[AccountOf(c)].loading = FALSE
             /\ accountsData'[AccountOf(c)].error # NoError
             /\ accountsData'[AccountOf(c)].error[1] = MessageHead(delivered')
             /\ \A id \in DOMAIN accountsData \ {AccountOf(c)} :
                    accountsData'[id] = accountsData[id]
             /\ IF cycles[c].idx < Len(enabledAccounts)
                THEN /\ cycles'[c].pc = "balance"
                     /\ cycles'[c].idx = cycles[c].idx + 1
                ELSE cycles'[c].pc = "idle"]_vars

\* C2 witness: the first enabled account is errored by a failed call while
\* the same state holds the later enabled account loaded by a cycle that
\* went on.
C2_Witness ==
    /\ DOMAIN accountsData = {"1", "3"}
    /\ ~accountsData["1"].loading
    /\ accountsData["1"].error # NoError
    /\ accountsData["1"].balance = Null
    /\ ~accountsData["3"].loading
    /\ accountsData["3"].balance # Null
    /\ accountsData["3"].error = NoError
    /\ \A c \in CycleIds : cycles[c].pc = "idle"

\* C3 (checked under SpecRefresh, where refresh cycles follow one another)
\* C3 (as claimed): every refresh cycle first puts each enabled account in
\* loading, and when the cycle has finished for an account the account is
\* ready (loading false, data populated, no error recorded) if the cycle
\* succeeded for it and errored (loading false, error recorded) if it failed;
\* so an account whose latest cycle succeeded has no error recorded, also
\* after an earlier failure.
C3_CycleEndsReadyOrErrored ==
    [][\A c \in CycleIds :
          /\ (cycles[c].pc = "idle" /\ cycles'[c].pc # "idle")
             => \A i \in 1..Len(enabledAccounts) :
                    /\ enabledAccounts[i].id \in DOMAIN accountsData'
                    /\ accountsData'[enabledAccounts[i].id].loading
          /\ ((Settles(c, "balance") \/ Settles(c, "positions")) /\ delivered' \in FailureKinds)
             => /\ ~accountsData'[AccountOf(c)].loading
                /\ accountsData'[AccountOf(c)].error # NoError
          /\ Settles(c, "orders")
             => /\ ~accountsData'[AccountOf(c)].loading
                /\ accountsData'[AccountOf(c)].balance = cycles[c].balance
                /\ accountsData'[AccountOf(c)].positions = cycles[c].positionsData
                /\ accountsData'[AccountOf(c)].error = NoError]_vars

(***************************************************************************)
(* Claims about the cancel handler (checked under SpecCancel)              *)
(***************************************************************************)
\* the step is the continuation of cancel activation k after its await
CancelSettles(k) == cancels[k].pc = "await" /\ cancels'[k].pc = "idle"

\* after is before without the orders whose id is orderId: nothing with that
\* id is left, and the orders left are, in the same order, all the others
IsRemoval(before, after, orderId) ==
    /\ \A i \in 1..Len(after) : after[i].orderId # orderId
    /\ \E f \in [1..Len(after) -> 1..Len(before)] :
          /\ \A i, j \in 1..Len(after) : i < j => f[i] < f[j]
          /\ \A i \in 1..Len(after) : after[i] = before[f[i]]
          /\ \A j \in 1..Len(before) :
                 before[j].orderId # orderId => \E i \in 1..Len(after) : f[i] = j

\* C4: when a cancel-order request for order o of account A succeeds, exactly
\* the orders with o's id leave A's order list: the other orders stay, in the
\* same order; A's balance, positions, loading and error are unchanged, and
\* so is the entry of every other account.
C4_CancelRemovesExactlyThatOrder ==
    [][\A k \in CancelIds :
          (CancelSettles(k) /\ delivered' = "success")
          => /\ cancels[k].accountId \in DOMAIN accountsData
             /\ DOMAIN accountsData' = DOMAIN accountsData
             /\ \A id \in DOMAIN accountsData \ {cancels[k].accountId} :
                    accountsData'[id] = accountsData[id]
             /\ accountsData'[cancels[k].accountId].account
                    = accountsData[cancels[k].accountId].account
             /\ accountsData'[cancels[k].accountId].balance
                    = accountsData[cancels[k].accountId].balance
             /\ accountsData'[cancels[k].accountId].positions
                    = accountsData[cancels[k].accountId].positions
             /\ accountsData'[cancels[k].accountId].loading
                    = accountsData[cancels[k].accountId].loading
             /\ accountsData'[cancels[k].accountId].error
                    = accountsData[cancels[k].accountId].error
             /\ IsRemoval(accountsData[cancels[k].accountId].orders,
                          accountsData'[cancels[k].accountId].orders,
                          cancels[k].order.orderId)]_vars

\* C4 witness: the latest cancel succeeded and dropped one order, and every
\* account of the table still lists an order (so the cancelled account kept
\* another one).
C4_Witness ==
    /\ lastCancel = Ended("ok", 1)
    /\ delivered = "success"
    /\ DOMAIN accountsData = {"1", "3"}
    /\ \A id \in DOMAIN accountsData : accountsData[id].orders # <<>>

\* C5: when a cancel-order request fails (network error, non-2xx status or
\* non-success envelope code), the account-state table is exactly what it
\* was, the failure is recorded in no error field, no request is issued by
\* the step (no retry), and no exception escapes the handler.
C5_CancelFailureLeavesStateUntouched ==
    [][\A k \in CancelIds :
          (CancelSettles(k) /\ delivered' \in FailureKinds)
          => /\ accountsData' = accountsData
             /\ lastCancel' = Ended("failed", 0)
             /\ cancels' = [cancels EXCEPT ![k] = IdleCancel]
             /\ cycles' = cycles]_vars

\* C5 witness: the latest cancel failed over a table that lists an order.
C5_Witness ==
    /\ lastCancel.result = "failed"
    /\ delivered \in FailureKinds
    /\ \E id \in DOMAIN accountsData : accountsData[id].orders # <<>>

\* the order of cancel activation k is not in the order list of its account
UnknownOrder(k) ==
    \A i \in 1..Len(EntryOf(accountsData, cancels[k].accountId).orders) :
        EntryOf(accountsData, cancels[k].accountId).orders[i].orderId
            # cancels[k].order.orderId

\* C6: cancel-order on an order id that is not in the account's order list,
\* or for an account id without an entry, is a no-op: the table is unchanged
\* and no exception escapes, whether the exchange accepts or rejects the
\* request (for an account without an entry the handler returns at once: no
\* request is in flight for such an account).
C6_CancelOfUnknownIsNoOp ==
    [][/\ \A k \in CancelIds :
             (CancelSettles(k) /\ UnknownOrder(k))
             => /\ accountsData' = accountsData
                /\ lastCancel'.result \in {"ok", "failed"}
                /\ lastCancel'.removed = 0
       /\ \A k \in CancelIds :
             cancels'[k].pc = "await" => cancels'[k].accountId \in DOMAIN accountsData'
       /\ lastCancel'.result # "threw"
       /\ (lastCancel' # lastCancel /\ lastCancel'.result = "returned")
             => accountsData' = accountsData /\ cancels' = cancels]_vars

\* C6 witness: the exchange accepted the cancel of an order id that the
\* account's non-empty order list did not hold: nothing was dropped.
C6_Witness ==
    /\ lastCancel = Ended("ok", 0)
    /\ delivered = "success"
    /\ DOMAIN accountsData = {"1", "3"}
    /\ \A id \in DOMAIN accountsData : accountsData[id].orders # <<>>

(***************************************************************************)
(* Claims about the price feed (checked under SpecFeed)                    *)
(***************************************************************************)
TickerSubscribe(instId) ==
    [op |-> "subscribe",
     args |-> <<[instType |-> "UMCBL", channel |-> "ticker", instId |-> instId]>>]

Count(msgs, msg) == Cardinality({j \in 1..Len(msgs) : msgs[j] = msg})

FullySubscribed(i) ==
    \A instId \in {"BTCUSDT_UMCBL", "ETHUSDT_UMCBL", "BNBUSDT_UMCBL"} :
        Count(sockets[i].sent, TickerSubscribe(instId)) = 1

\* C7: every connection that is open, the first one of the feed and every
\* reconnection alike, has had exactly one ticker subscribe message sent on it
\* for each of BTCUSDT_UMCBL, ETHUSDT_UMCBL and BNBUSDT_UMCBL; no connection is
\* open without the full set.
C7_OpenConnectionIsSubscribed ==
    \A i \in 1..Len(sockets) :
        sockets[i].readyState = "OPEN" => FullySubscribed(i)

\* a reconnection (a later socket of an effect run that had one before) is open
C7_Witness ==
    \E i, j \in 1..Len(sockets) :
        /\ i < j
        /\ sockets[i].session = sockets[j].session
        /\ sockets[i].readyState = "CLOSED"
        /\ sockets[j].readyState = "OPEN"

\* C8 (as claimed): while the feed is running, after every close, error or
\* failure to create the connection a reconnect attempt is scheduled: the
\* running effect either has a connection that is connecting or open, or has
\* its reconnect timer pending.
C8_FeedAlwaysRetries ==
    Current >= 1 =>
        LET se == sessions[Current]
        IN  \/ se.reconnectTimer = "pending"
            \/ /\ se.ws # 0
               /\ sockets[se.ws].readyState \in {"CONNECTING", "OPEN"}

\* C9 (as claimed): the connected flag is true only if the current connection
\* of the feed is open.
C9_ConnectedOnlyIfOpen ==
    wsConnected =>
        /\ Current >= 1
        /\ sessions[Current].ws # 0
        /\ sockets[sessions[Current].ws].readyState = "OPEN"

(***************************************************************************)
(* Claims about the signer (checked under SpecSign)                        *)
(***************************************************************************)
Given(x) == IF x.defined THEN x.str ELSE <<>>

IsUpperOf(c, ch) ==
    \/ /\ ch \in {"g", "e", "t", "p", "o", "s"}
       /\ <<ch, c>> \in {<<"g", "G">>, <<"e", "E">>, <<"t", "T">>,
                         <<"p", "P">>, <<"o", "O">>, <<"s", "S">>}
    \/ /\ ch \notin {"g", "e", "t", "p", "o", "s"}
       /\ c = ch

\* C10: for every method, path, query, body, timestamp and secret the signature
\* is the base64 encoding of the HMAC-SHA256, keyed by the secret, of a message
\* that is, piece by piece and in this order, the timestamp, the upper-cased
\* method, the path, the query and the body, a missing query or body
\* contributing nothing.
C10_SignatureOfConcatenation ==
    signCall # <<>> =>
        LET call == signCall[1]
            sig == call.signature
            msg == sig.words.message
            t == Len(call.timestamp)
            m == t + Len(call.method)
            p == m + Len(call.requestPath)
            q == p + Len(Given(call.queryString))
            b == q + Len(Given(call.body))
        IN  /\ sig.encoding = "base64"
            /\ sig.words.alg = "HmacSHA256"
            /\ sig.words.key = call.secretKey
            /\ Len(msg) = b
            /\ SubSeq(msg, 1, t) = call.timestamp
            /\ \A i \in 1..Len(call.method) : IsUpperOf(msg[t + i], call.method[i])
            /\ SubSeq(msg, m + 1, p) = call.requestPath
            /\ SubSeq(msg, p + 1, q) = Given(call.queryString)
            /\ SubSeq(msg, q + 1, b) = Given(call.body)

\* a lower-case method signed with a query present and the body missing
C10_Witness ==
    /\ signCall # <<>>
    /\ signCall[1].method = <<"p", "o", "s", "t">>
    /\ signCall[1].queryString.defined
    /\ signCall[1].queryString.str # <<>>
    /\ ~signCall[1].body.defined
    /\ signCall[1].signature.words.message =
           signCall[1].timestamp \o <<"P", "O", "S", "T">> \o signCall[1].requestPath
               \o signCall[1].queryString.str

SignerFields == {"method", "requestPath", "queryString", "body", "timestamp", "secretKey"}

\* the fields of the two recorded calls that differ
Differing == {f \in SignerFields : signCall[1][f] # signCall[2][f]}

SameLetters(a, b) ==
    /\ Len(a) = Len(b)
    /\ \A i \in 1..Len(a) : \E c \in {"G", "E", "T", "P", "O", "S"} :
           IsUpperOf(c, a[i]) /\ IsUpperOf(c, b[i])

\* the two calls differ in field f only by what the signer normalises away:
\* the letter case of the method, a missing query or body against an empty one
NormalisedAway(f) ==
    \/ f = "method" /\ SameLetters(signCall[1].method, signCall[2].method)
    \/ f \in {"queryString", "body"} /\ Given(signCall[1][f]) = Given(signCall[2][f])

\* C11 (as claimed): two calls of the signer whose inputs differ in exactly
\* one of the six fields return different signatures.
C11_AnySingleFieldChangesSignature ==
    (Len(signCall) = 2 /\ Cardinality(Differing) = 1)
        => signCall[1].signature # signCall[2].signature

\* C11 (amended): two calls of the signer with identical inputs return the
\* identical signature, and two calls whose inputs differ in exactly one field
\* return different signatures unless the two values of that field differ only
\* in the letter case of the method or in a query or body being missing
\* rather than empty.
C11_DeterministicAndSensitive ==
    Len(signCall) = 2 =>
        /\ Differing = {} => signCall[1].signature = signCall[2].signature
        /\ \A f \in SignerFields :
               (Differing = {f} /\ ~NormalisedAway(f))
                   => signCall[1].signature # signCall[2].signature

\* two calls that differ in the secret only, and so in the signature
C11_Witness ==
    /\ Len(signCall) = 2
    /\ Differing = {"secretKey"}
    /\ signCall[1].signature # signCall[2].signature

(***************************************************************************)
(* Claims about the request client (checked under SpecBuild)               *)
(***************************************************************************)
\* what is transmitted: the query is what follows the endpoint in the URL,
\* the body is the body handed to fetch, nothing if there is none
SentQuery(r) == SubSeq(r.fetch.url, Len(r.endpoint) + 1, Len(r.fetch.url))
SentBodyOf(r) == IF r.fetch.body.defined THEN r.fetch.body.str ELSE <<>>
SignedMessage(r) == r.fetch.headers["ACCESS-SIGN"].words.message

\* C12: for every request the client issues, the message that was signed is
\* the timestamp header, the method and the endpoint followed by exactly the
\* query string and the body that are transmitted; a GET signs the empty body
\* and sends none, a call without query parameters signs the empty query and
\* sends none.
C12_SignedIsWhatIsSent ==
    \A i \in 1..Len(requests) :
        LET r == requests[i]
        IN  /\ SubSeq(r.fetch.url, 1, Len(r.endpoint)) = r.endpoint
            /\ SignedMessage(r) =
                   r.fetch.headers["ACCESS-TIMESTAMP"] \o r.fetch.method \o r.endpoint
                       \o SentQuery(r) \o SentBodyOf(r)
            /\ r.method = <<"G", "E", "T">> => ~r.fetch.body.defined
            /\ (~r.params.defined \/ r.params.entries = <<>>) => SentQuery(r) = <<>>

\* a POST with query parameters and a body has been built
C12_Witness ==
    /\ requests # <<>>
    /\ requests[1].method = <<"P", "O", "S", "T">>
    /\ SentQuery(requests[1]) = <<"?", "p", "=", "u", "&", "m", "=", "U", "S">>
    /\ SentBodyOf(requests[1]) = <<"{", "\"", "o", "\"", ":", "\"", "1", "\"", "}">>

SameArguments ==
    /\ Len(requests) = 2
    /\ \A f \in {"account", "method", "endpoint", "params", "body"} :
           requests[1][f] = requests[2][f]

\* C17 (as claimed): two requests built from the same account, method,
\* endpoint, query and body have identical headers in every field except the
\* timestamp header.
C17_HeadersEqualButTimestamp ==
    SameArguments =>
        \A h \in HeaderNames \ {"ACCESS-TIMESTAMP"} :
            requests[1].fetch.headers[h] = requests[2].fetch.headers[h]

\* C17 (amended): two requests built from the same account, method, endpoint,
\* query and body have identical headers in every field except the timestamp
\* header and the signature header; the two signatures are keyed alike and
\* sign messages that differ in the leading timestamp only, so they are
\* identical when the timestamps are.
C17_HeadersEqualButTimestampAndSignature ==
    SameArguments =>
        LET h1 == requests[1].fetch.headers
            h2 == requests[2].fetch.headers
            t1 == Len(h1["ACCESS-TIMESTAMP"])
            t2 == Len(h2["ACCESS-TIMESTAMP"])
            m1 == h1["ACCESS-SIGN"].words.message
            m2 == h2["ACCESS-SIGN"].words.message
        IN  /\ \A h \in HeaderNames \ {"ACCESS-TIMESTAMP", "ACCESS-SIGN"} : h1[h] = h2[h]
            /\ h1["ACCESS-SIGN"].words.key = h2["ACCESS-SIGN"].words.key
            /\ SubSeq(m1, 1, t1) = h1["ACCESS-TIMESTAMP"]
            /\ SubSeq(m2, 1, t2) = h2["ACCESS-TIMESTAMP"]
            /\ SubSeq(m1, t1 + 1, Len(m1)) = SubSeq(m2, t2 + 1, Len(m2))
            /\ h1["ACCESS-TIMESTAMP"] = h2["ACCESS-TIMESTAMP"]
                   => h1["ACCESS-SIGN"] = h2["ACCESS-SIGN"]

\* the same request built at two different clock values
C17_Witness ==
    /\ SameArguments
    /\ requests[1].now # requests[2].now
    /\ requests[1].fetch.headers["ACCESS-KEY"] = requests[2].fetch.headers["ACCESS-KEY"]
    /\ requests[1].fetch.headers["ACCESS-SIGN"] # requests[2].fetch.headers["ACCESS-SIGN"]

(***************************************************************************)
(* Claims about the handling of responses (checked under SpecReply)        *)
(***************************************************************************)
Is2xx(resp) == ~resp.threw /\ resp.status \in 200..299
Not2xx(resp) == ~resp.threw /\ resp.status \notin 200..299

\* C13: whenever the HTTP status of a response is not 2xx, the request client
\* fails with a transport error that carries the status code and the raw
\* response body; it never returns a parsed envelope for such a response.
C13_Non2xxIsTransportError ==
    \A i \in 1..Len(reply) :
        (reply[i].call = "makeApiRequest" /\ Not2xx(reply[i].resp)) =>
            /\ reply[i].outcome.threw
            /\ reply[i].outcome.value = <<>>
            /\ Len(reply[i].outcome.message) = 4
            /\ reply[i].outcome.message[1] = "HTTP error! status: "
            /\ reply[i].outcome.message[2] = reply[i].resp.status
            /\ reply[i].outcome.message[4] = reply[i].resp.body

\* the request client has met a redirect whose body is an envelope reporting success
C13_Witness ==
    /\ reply # <<>>
    /\ reply[1].call = "makeApiRequest"
    /\ reply[1].resp.status = 300
    /\ reply[1].resp.code = "00000"
    /\ reply[1].resp.body = "oops"
    /\ reply[1].outcome.threw

\* C14: whenever a response has a 2xx status but the envelope's code is not
\* the success code, the balance call, the positions call and the cancel-order
\* call fail with an API error that carries the envelope's message, and the
\* envelope's data is not returned.
C14_NonSuccessCodeIsApiError ==
    \A i \in 1..Len(reply) :
        ( /\ reply[i].call \in {"getAccountBalance", "getPositions", "cancelOrder"}
          /\ Is2xx(reply[i].resp)
          /\ reply[i].resp.code # "00000" ) =>
            /\ reply[i].outcome.threw
            /\ reply[i].outcome.value = <<>>
            /\ reply[i].outcome.message = <<"API Error: ", reply[i].resp.msg>>

\* the positions call has met a 204 whose envelope reports an error and has data
C14_Witness ==
    /\ reply # <<>>
    /\ reply[1].call = "getPositions"
    /\ reply[1].resp.status = 204
    /\ reply[1].resp.code = "40001"
    /\ reply[1].resp.data = <<"d1">>
    /\ reply[1].outcome.threw

(***************************************************************************)
(* Claims about the rendering of positions (checked under SpecRender)      *)
(***************************************************************************)
ApiSymbolOf(symbol) ==
    IF symbol = "BTCUSD.P" THEN "BTCUSDT_UMCBL"
    ELSE IF symbol = "ETHUSD.P" THEN "ETHUSDT_UMCBL"
    ELSE IF symbol = "BNBUSDT.P" THEN "BNBUSDT_UMCBL"
    ELSE symbol

\* the reported size is a numeral with a digit other than 0
NonzeroSize(total) ==
    /\ total.defined
    /\ \E i \in 1..Len(total.str) : total.str[i] \in {"1", "2", "3", "4", "5", "6", "7", "8", "9"}

\* the positions of the list that belong to the symbol and have a nonzero size
RECURSIVE Expected(_, _)
Expected(positions, symbol) ==
    IF positions = <<>> THEN <<>>
    ELSE LET rest == Expected(SubSeq(positions, 1, Len(positions) - 1), symbol)
             last == positions[Len(positions)]
         IN  IF last.symbol = ApiSymbolOf(symbol) /\ NonzeroSize(last.total)
             THEN Append(rest, last) ELSE rest

\* C15: the filtered position list shown for the selected symbol contains
\* exactly the account's positions whose symbol is the API symbol of the
\* selected symbol and whose reported size is nonzero, in their order; a
\* position of size zero or without a size is not in it.
C15_FilteredPositionsAreTheNonzeroOnes ==
    \A i \in 1..Len(view) :
        /\ view[i].filteredPositions = Expected(view[i].positions, view[i].symbol)
        /\ \A j \in 1..Len(view[i].filteredPositions) :
               NonzeroSize(view[i].filteredPositions[j].total)

\* a zero-sized position of the selected symbol was left out and a fractional
\* one was kept
C15_Witness ==
    /\ view # <<>>
    /\ view[1].symbol = "BTCUSD.P"
    /\ view[1].positions =
           << [symbol |-> "BTCUSDT_UMCBL", total |-> Str(<<"0", ".", "0", "0">>)],
              [symbol |-> "BTCUSDT_UMCBL", total |-> Str(<<"0", ".", "0", "5">>)] >>
    /\ view[1].filteredPositions =
           << [symbol |-> "BTCUSDT_UMCBL", total |-> Str(<<"0", ".", "0", "5">>)] >>

(***************************************************************************)
(* Claims about repeated refresh cycles (checked under SpecIdem)           *)
(***************************************************************************)
\* C16: re-fetching is idempotent: when a refresh cycle has run to completion
\* and a second cycle then runs to completion with the exchange returning the
\* same response for every call, the account table after the second cycle is
\* identical to the table after the first.
C16_RefetchIsIdempotent ==
    [][ ( /\ quiet.cyclesDone >= 1
          /\ cycles[1].pc # "idle"
          /\ cycles'[1].pc = "idle" )
            => accountsData' = quiet.table ]_vars

\* two cycles have completed with the same answers, one account failing and the
\* other carrying data beside the error of an earlier cycle
C16_Witness ==
    /\ quiet.cyclesDone = 2
    /\ cycles[1].pc = "idle"
    /\ accountsData = quiet.table
    /\ accountsData["1"].error # NoError
    /\ accountsData["1"].balance # Null
    /\ accountsData["3"].error # NoError
    /\ accountsData["3"].balance = Null

(***************************************************************************)
(* Claims about a request that never completes (checked under SpecHang)    *)
(***************************************************************************)
Loading(id) == id \in DOMAIN accountsData /\ accountsData[id].loading

\* the cycle of the first slot is waiting for a response for another account
WaitingElsewhere(id) ==
    /\ cycles[1].pc # "idle"
    /\ enabledAccounts[cycles[1].idx].id # id

FetchOrder == <<"1", "3">>

\* where a cycle goes when it is done with the account at position i
AfterAccount(i) ==
    IF i < Len(FetchOrder)
    THEN [pc |-> "balance", idx |-> i + 1]
    ELSE [pc |-> "idle", idx |-> 0]

At(cy) == [pc |-> cy.pc, idx |-> cy.idx]

\* the entries of the two tables agree except for the entry of id
SameBut(before, after, id) ==
    \A k \in (DOMAIN before \cup DOMAIN after) \ {id} :
        k \in DOMAIN before /\ k \in DOMAIN after /\ before[k] = after[k]

\* C20: within one refresh cycle one request is in flight at a time: the
\* enabled accounts are fetched one after another in configuration order; for
\* each account the positions call is issued when the balance call has
\* completed with success and the orders call when the positions call has;
\* after a failed step the cycle moves on to the next account without
\* requesting the rest, and what a step writes is the entry of its account.
C20_RequestsAreSequential ==
    [][\A c \in CycleIds :
          cycles'[c] # cycles[c] =>
              LET cy == cycles[c]
                  to == At(cycles'[c])
              IN  CASE cy.pc = "idle" ->
                           to = [pc |-> "balance", idx |-> 1]
                    [] cy.pc = "balance" ->
                           /\ IF delivered' = "success"
                              THEN to = [pc |-> "positions", idx |-> cy.idx]
                                   /\ accountsData' = accountsData
                              ELSE to = AfterAccount(cy.idx)
                           /\ SameBut(accountsData, accountsData', FetchOrder[cy.idx])
                    [] cy.pc = "positions" ->
                           /\ IF delivered' = "success"
                              THEN to = [pc |-> "orders", idx |-> cy.idx]
                                   /\ accountsData' = accountsData
                              ELSE to = AfterAccount(cy.idx)
                           /\ SameBut(accountsData, accountsData', FetchOrder[cy.idx])
                    [] cy.pc = "orders" ->
                           /\ to = AfterAccount(cy.idx)
                           /\ SameBut(accountsData, accountsData', FetchOrder[cy.idx])
      ]_vars

\* a cycle has moved on to the second enabled account after the balance call
\* of the first one failed, while another cycle is waiting for orders
C20_Witness ==
    /\ cycles[1].pc = "balance"
    /\ cycles[1].idx = 2
    /\ accountsData["1"].error # NoError
    /\ accountsData["1"].balance = Null
    /\ cycles[2].pc = "orders"

(***************************************************************************)
(* Claims about overlapping cycles and cancels (checked under SpecRace)    *)
(***************************************************************************)
\* s is t with some of its elements left out
RECURSIVE IsSubSeq(_, _)
IsSubSeq(s, t) ==
    IF s = <<>> THEN TRUE
    ELSE IF t = <<>> THEN FALSE
    ELSE IF Head(s) = Head(t) THEN IsSubSeq(Tail(s), Tail(t))
    ELSE IsSubSeq(s, Tail(t))

\* the three data fields of the entry were fetched for this account by one
\* activation: they carry one and the same stamp of the account
OneFetch(id, entry) ==
    \E stamp \in {"1.t1", "1.t2", "3.t1", "3.t2"} :
        /\ stamp \in (IF id = "1" THEN {"1.t1", "1.t2"} ELSE {"3.t1", "3.t2"})
        /\ entry.balance = stamp
        /\ entry.positions = <<stamp>>
        /\ IsSubSeq(entry.orders,
                    << [orderId |-> "o1", clientOid |-> stamp],
                       [orderId |-> "o2", clientOid |-> stamp] >>)

\* C19: under every interleaving of overlapping refresh cycles and cancel
\* handlers, the balance, positions and orders of an account are either all at
\* their reset values (none, empty, empty) or were written together by one and
\* the same fetch cycle, the orders differing from that cycle's result only by
\* cancelled orders having been removed.
C19_NoPartialFieldCorruption ==
    \A id \in DOMAIN accountsData :
        \/ /\ accountsData[id].balance = "null"
           /\ accountsData[id].positions = <<>>
           /\ accountsData[id].orders = <<>>
        \/ OneFetch(id, accountsData[id])

\* two cycles overlap after one of them has written account 1 and the other has
\* failed on it, an order of the written list has been cancelled and another
\* cancel is in flight
C19_Witness ==
    /\ \E c, d \in CycleIds : c # d /\ cycles[c].pc # "idle" /\ cycles[d].pc # "idle"
    /\ \E k \in CancelIds : cancels[k].pc # "idle"
    /\ "1" \in DOMAIN accountsData
    /\ accountsData["1"].balance = "1.t2"
    /\ accountsData["1"].orders = << [orderId |-> "o2", clientOid |-> "1.t2"] >>
    /\ accountsData["1"].error # NoError

(***************************************************************************)
(* Claims about cancel-all (checked under SpecBatch)                       *)
(***************************************************************************)
\* the orders of the enabled accounts of a table, account after account
OrdersOfEnabled(table) ==
    LET ids == SelectSeq(<<"1", "2", "3">>,
                         LAMBDA id : id \in DOMAIN table /\ table[id].account.enabled)
        RECURSIVE From(_)
        From(i) ==
            IF i > Len(ids) THEN <<>>
            ELSE [j \in 1..Len(table[ids[i]].orders) |->
                     [accountId |-> ids[i], orderId |-> table[ids[i]].orders[j].orderId]]
                 \o From(i + 1)
    IN  From(1)

IsPrefix(s, t) == Len(s) <= Len(t) /\ s = SubSeq(t, 1, Len(s))

\* C21: cancel-all issues one cancel request at a time, one for every order
\* that is in the order list of an enabled account when it is invoked; a failed
\* cancel does not stop the remaining attempts; after the last attempt a refresh
\* cycle is started.
C21_CancelAllIsBestEffort ==
    [][ /\ \* invoked: the attempts are fixed from the table of that moment
           (batch.pc = "idle" /\ batch'.pc = "await")
               => /\ batch'.snapshot = OrdersOfEnabled(accountsData)
                  /\ batch'.issued = <<batch'.snapshot[1]>>
                  /\ batch'.outcomes = <<>>
        /\ \* one at a time, in order: a request is issued only when every
           \* request before it has settled
           batch'.pc = "await"
               => /\ IsPrefix(batch'.issued, batch'.snapshot)
                  /\ Len(batch'.issued) = Len(batch'.outcomes) + 1
        /\ \* an attempt settles, failed or not: the next one is made
           (batch.pc = "await" /\ Len(batch.issued) < Len(batch.snapshot))
               => (batch' = batch
                   \/ /\ batch'.pc = "await"
                      /\ batch'.snapshot = batch.snapshot
                      /\ Len(batch'.issued) = Len(batch.issued) + 1)
        /\ \* the last attempt settles: every order was attempted and a
           \* refresh cycle starts
           (batch.pc = "await" /\ batch'.pc = "idle")
               => /\ batch'.issued = batch'.snapshot
                  /\ batch'.snapshot = batch.snapshot
                  /\ Len(batch'.outcomes) = Len(batch'.snapshot)
                  /\ \E c \in CycleIds :
                         /\ cycles[c].pc = "idle"
                         /\ cycles'[c].pc = "balance"
                         /\ cycles'[c].idx = 1
                  /\ \A id \in {"1", "3"} : accountsData'[id].loading
      ]_vars

\* a cancel-all over the two orders of each account has ended after its first
\* and third cancel failed
C21_Witness ==
    /\ batch.pc = "idle"
    /\ batch.refreshed
    /\ Len(batch.snapshot) = 4
    /\ batch.snapshot[1].accountId = "1"
    /\ batch.snapshot[4].accountId = "3"
    /\ batch.outcomes = <<"failed", "cancelled", "failed", "cancelled">>
    /\ batch.issued = batch.snapshot

(***************************************************************************)
(* Claims about the portfolio summary (checked under SpecDesk)             *)
(***************************************************************************)
\* the positions of the enabled accounts of a table that have property P
Positions(table, P(_)) ==
    {<<id, i>> \in {"1", "2", "3"} \X (1..MaxPositions) :
        /\ id \in DOMAIN table
        /\ table[id].account.enabled
        /\ i <= Len(table[id].positions)
        /\ P(PositionFields(table[id].positions[i]))}

Exists(position) ==
    /\ position.total.defined
    /\ position.total.str # <<>>
    /\ LET size == parseFloat(position.total.str) IN size.nan \/ size.num # 0

\* C29 (as claimed): the summary counts only positions whose reported size is
\* nonzero: total, long and short count no position with a size of zero, and
\* long + short = total.
C29_SummaryCountsExistingPositions ==
    (summary.rendered /\ ~summary.result.threw) =>
        LET t == summary.result.value
        IN  /\ t.totalPositions = Cardinality(Positions(summary.table, Exists))
            /\ t.totalLongPositions =
                   Cardinality(Positions(summary.table,
                                         LAMBDA q : Exists(q) /\ q.holdSide = "long"))
            /\ t.totalShortPositions =
                   Cardinality(Positions(summary.table,
                                         LAMBDA q : Exists(q) /\ q.holdSide # "long"))
            /\ t.totalLongPositions + t.totalShortPositions = t.totalPositions

\* C22 (as claimed): no exception escapes the handler that met a failure or an
\* unexpectedly shaped response; here: the summary of every table the refresh
\* cycles leave is computed without an exception.
C22_NoExceptionEscapes ==
    summary.rendered => ~summary.result.threw

(***************************************************************************)
(* Claims about the sessions of the price feed (checked under SpecFeed)    *)
(***************************************************************************)
LiveSockets == {i \in 1..Len(sockets) : sockets[i].readyState \in {"CONNECTING", "OPEN"}}

\* C26 (as claimed): the feed owns at most one live connection at any time,
\* also across a symbol change; a session that its cleanup has stopped has no
\* reconnect timer pending, no keepalive interval running and no connection
\* that is connecting or open.
C26_AtMostOneLiveConnection ==
    /\ Cardinality(LiveSockets) <= 1
    /\ \A s \in 1..Len(sessions) :
           ~sessions[s].live =>
               /\ sessions[s].reconnectTimer # "pending"
               /\ sessions[s].pingTimer # "on"
               /\ \A i \in LiveSockets : sockets[i].session # s

(***************************************************************************)
(* Claims about the price ticks (checked under SpecTick)                   *)
(***************************************************************************)
ConfiguredDisplay(instId) ==
    CASE instId = "BTCUSDT_UMCBL" -> "BTCUSD.P"
      [] instId = "ETHUSDT_UMCBL" -> "ETHUSD.P"
      [] instId = "BNBUSDT_UMCBL" -> "BNBUSDT.P"
      [] OTHER -> "none"

\* a ticker message for a configured symbol: channel ticker, a configured
\* instrument, and a ticker object in data
TickerMessage(event) ==
    /\ event.text = "json"
    /\ event.hasArg
    /\ event.channel = "ticker"
    /\ ConfiguredDisplay(event.instId) # "none"
    /\ event.hasData
    /\ Len(event.data) >= 1

Present(x) == x.defined /\ x.str # <<>>

\* the price field of a ticker object, under whichever name it comes
PriceField(t) ==
    IF Present(t.last) THEN t.last
    ELSE IF Present(t.lastPr) THEN t.lastPr
    ELSE t.lastPrice

\* C25: a ticker message for a configured symbol S overwrites the price tick
\* of S (the price parsed from the message, the time of the message) and leaves
\* the ticks of all other symbols unchanged; a pong, a non-ticker message, a
\* ticker message for an instrument that is not configured and a payload that
\* cannot be parsed (as well as a ticker message without a ticker object) leave
\* every tick unchanged.
C25_TickerOverwritesItsSymbolOnly ==
    [][ (received' # received \/ priceData' # priceData) =>
            LET event == received'.event
                S == ConfiguredDisplay(event.instId)
            IN  /\ received'.from = "stream"
                /\ IF TickerMessage(event)
                   THEN /\ DOMAIN priceData' = DOMAIN priceData \cup {S}
                        /\ priceData'[S].symbol = S
                        /\ priceData'[S].lastUpdate = received'.now
                        /\ priceData'[S].price =
                               (IF PriceField(event.data[1]).defined
                                THEN parseFloat(PriceField(event.data[1]).str)
                                ELSE NaN)
                        /\ \A other \in DOMAIN priceData \ {S} :
                               priceData'[other] = priceData[other]
                   ELSE priceData' = priceData
      ]_vars

\* the tick of ETHUSD.P was overwritten by a message that names its price
\* lastPr, next to a tick of BTCUSD.P
C25_Witness ==
    /\ received.from = "stream"
    /\ received.event.instId = "ETHUSDT_UMCBL"
    /\ TickerMessage(received.event)
    /\ ~received.event.data[1].last.defined
    /\ DOMAIN priceData = {"BTCUSD.P", "ETHUSD.P"}
    /\ priceData["ETHUSD.P"].price = [nan |-> FALSE, num |-> 2, scale |-> 0]
    /\ priceData["BTCUSD.P"].price = [nan |-> FALSE, num |-> 1, scale |-> 0]

(***************************************************************************)
(* Claims about the current price (checked under SpecPrice)                *)
(***************************************************************************)
\* C30 (as claimed): in every reachable state the current price is either its
\* initial value 0 or the price stored in the tick of the selected symbol.
C30_CurrentPriceIsOfSelectedSymbol ==
    \/ currentPrice = [nan |-> FALSE, num |-> 0, scale |-> 0]
    \/ /\ selectedSymbol \in DOMAIN priceData
       /\ currentPrice = priceData[selectedSymbol].price

(***************************************************************************)
(* Claims about the polling fallback (checked under SpecPoll)              *)
(***************************************************************************)
\* C23 (as claimed): after a polling round in which the ticker request of
\* every symbol failed the connected flag is false, and the flag is true only
\* after a round in which at least one ticker request succeeded.
C23_FlagFollowsThePollingRound ==
    /\ (/\ polling.pc = "idle"
        /\ polling.lastRound # <<>>
        /\ \A i \in 1..Len(polling.lastRound) : ~polling.lastRound[i])
           => ~polling.wsConnected
    /\ polling.wsConnected => polling.goodRound

(***************************************************************************)
(* Claims about overlapping refresh cycles                                 *)
(***************************************************************************)
\* the activation in slot c has put the i-th enabled account into loading and
\* has not yet written its result or its error for it
WritePending(c, i) ==
    /\ cycles[c].pc # "idle"
    /\ cycles[c].idx <= i

\* C28 (as claimed, checked under SpecFetch): while a refresh cycle that has
\* put an enabled account into loading has not yet written its result or
\* error for that account, the account's loading flag is true.
C28_LoadingWhileAWriteIsPending ==
    \A c \in CycleIds, i \in 1..Len(enabledAccounts) :
        WritePending(c, i) => accountsData[enabledAccounts[i].id].loading

\* C27 (as claimed, checked under SpecStale): once the cancel request for an
\* order has succeeded and the order has been removed from the account's
\* local order list, the order is not in that list again, whatever the
\* refresh cycles in flight at the time of the cancel deliver.
C27_CancelledOrderStaysAway ==
    (lastCancel.result = "ok" /\ lastCancel.removed > 0)
        => \A i \in 1..Len(accountsData[StaleAccount].orders) :
               accountsData[StaleAccount].orders[i].orderId # StaleOrderId

\* C24 (checked under SpecOverlap): when refresh cycles overlap the last write
\* wins per account: the success write of a cycle makes the account's
\* balance, positions and orders those the cycle fetched, whatever another
\* cycle wrote before; the writer can be the cycle that was started first.
C24_LastWriteWins ==
    [][\A c \in CycleIds :
           (/\ cycles[c].pc = "orders"
            /\ cycles'[c] # cycles[c]
            /\ delivered' = "success")
               => LET id == enabledAccounts[cycles[c].idx].id
                  IN  /\ accountsData'[id].balance = cycles[c].balance
                      /\ accountsData'[id].positions = cycles[c].positionsData
                      /\ accountsData'[id].orders = StampedOrders(cycles[c].balance)]_vars

\* both cycles have written their result for account 1 (no error was ever
\* written for it and the younger cycle is at the next account), and the
\* account holds the data of the older cycle: the older cycle wrote last
C24_Witness ==
    /\ cycles[2].pc # "idle"
    /\ cycles[2].idx = 2
    /\ cycles[1].pc = "idle" \/ cycles[1].idx = 2
    /\ "1" \in DOMAIN accountsData
    /\ accountsData["1"].error = NoError
    /\ accountsData["1"].balance = Stamp("1", SlotMark(1))
    /\ accountsData["1"].positions = <<Stamp("1", SlotMark(1))>>
    /\ accountsData["1"].orders = StampedOrders(Stamp("1", SlotMark(1)))

====
